---- MODULE Spec2Model ----
(***************************************************************************)
(* LogLens: a state-machine model of the streaming analytics core.         *)
(*                                                                         *)
(*   - AnomalyDetector   (src/loglens/analytics/anomaly_detector.py)       *)
(*   - MetricProcessor   (src/loglens/analytics/metrics.py)                *)
(*   - LogStorage        (src/loglens/storage/database.py)                 *)
(*                                                                         *)
(* Timestamps and durations are whole seconds.  Sample values are          *)
(* integers; means, variances and z-scores are exact rationals (a pair     *)
(* num/den), so every comparison the code makes on floats is made here by  *)
(* cross-multiplication.  A standard deviation or an absolute z-score,     *)
(* being a square root, is carried as its square.  The float quotient      *)
(* (value - mean) / std is the exact one up to rounding: the z-score       *)
(* carries the direction of its rounding error (just below, equal to, or   *)
(* just above the exact value), which decides comparisons at a tie; away   *)
(* from the numbers the z-score is compared with it is recorded as 0.      *)
(***************************************************************************)
EXTENDS Integers, Sequences, FiniteSets, TLC

VARIABLES
    \* AnomalyDetector fields
    window_size, threshold, min_samples, values, timestamps,
    \* AnomalyDetector: the last operation, its return value, and the
    \* (value, timestamp) pairs submitted since construction or reset
    det_op, det_ret, det_submitted,
    \* AnomalyDetector: how the float z-score of the last call was rounded
    det_round,
    \* AnomalyDetector: whether reset() has discarded samples
    det_dropped,
    \* MultiMetricAnomalyDetector: its detectors by metric name, the last
    \* operation with its arguments, and what it returned
    mm_detectors, mm_op, mm_ret,
    \* MultiMetricAnomalyDetector: per metric name the (value, timestamp)
    \* pairs submitted and how the float z-score of its last call was rounded
    mm_submitted, mm_round,
    \* LogIngestor: skip_invalid, the lines of the stream not read yet, the
    \* number of the last line read, the events yielded, and the exception
    \* that ended the iteration, if any
    ing_skip_invalid, ing_stream, ing_line_num, ing_yielded, ing_raised,
    \* LogEvent: the arguments of the last construction and its outcome
    new_event,
    \* The ingest command: where it is, how many events its second reading of
    \* the file has given to the processor, and the status it exited with
    cli_pc, cli_metric_pass, cli_status,
    \* _calculate_severity as a pure function: two evaluations
    sev_a, sev_b,
    \* MetricProcessor fields
    metrics, metric_windows, metric_results,
    \* MetricProcessor: the last operation and what it returned or raised;
    \* the events submitted since construction or clear(), and per metric
    \* name those for which the metric's filter returned True
    mp_op, mp_ret, mp_submitted, mp_matched,
    \* MetricProcessor: per metric name, the result add_event last returned
    mp_returned,
    \* MetricProcessor: whether clear() has discarded events or results
    mp_dropped,
    \* Metric: the arguments of the last construction and its outcome
    new_metric,
    \* RollingWindowProcessor fields
    rw_window_size, rw_window_type, rw_events, rw_current_metrics,
    rw_current_window_start, rw_current_window_end, rw_completed_windows,
    \* RollingWindowProcessor: where the running add_event call is ("idle"
    \* between calls), its event and its local completed_window, what the
    \* last call returned, and the number of calls made
    rw_pc, rw_event, rw_completed_window, rw_ret, rw_calls,
    \* LogStorage: the rows of the events and metrics tables, and whether the
    \* connection is "open" or "closed"
    events, metric_rows, db_conn,
    \* LogStorage: the last operation, the arguments of the query a behaviour
    \* makes, and the ids the inserts returned
    db_op, db_query, event_ids, metric_ids,
    \* LogStorage in a with statement: "outside" before it, "body" inside
    \* it, and how the block was left
    db_with,
    \* LogStorage shared by two writers: where each one's insert_event call
    \* is, between its statements
    db_writers

det_vars == <<window_size, threshold, min_samples, values, timestamps,
              det_op, det_ret, det_submitted, det_round, det_dropped>>
mm_vars == <<mm_detectors, mm_op, mm_ret, mm_submitted, mm_round>>
ing_vars == <<ing_skip_invalid, ing_stream, ing_line_num, ing_yielded, ing_raised>>
ev_vars == <<new_event>>
cli_vars == <<cli_pc, cli_metric_pass, cli_status>>
sev_vars == <<sev_a, sev_b>>
mp_vars == <<metrics, metric_windows, metric_results,
             mp_op, mp_ret, mp_submitted, mp_matched, mp_returned, mp_dropped>>
mc_vars == <<new_metric>>
rw_vars == <<rw_window_size, rw_window_type, rw_events, rw_current_metrics,
             rw_current_window_start, rw_current_window_end, rw_completed_windows,
             rw_pc, rw_event, rw_completed_window, rw_ret, rw_calls>>
db_vars == <<events, metric_rows, db_conn, db_op, db_query, event_ids, metric_ids,
             db_with, db_writers>>

\* Python's None where a record is expected (an Optional[Anomaly] return)
None == [kind |-> "None"]
\* An Optional[int] argument: <<>> is None, <<t>> is t
NoArg == <<>>
Some(x) == <<x>>

Rat(n, d) == [num |-> n, den |-> d]

RECURSIVE SeqSum(_)
SeqSum(s) == IF s = <<>> THEN 0 ELSE Head(s) + SeqSum(Tail(s))

Last(s) == s[Len(s)]

Min(a, b) == IF a <= b THEN a ELSE b

(***************************************************************************)
(* Bounds of the model                                                     *)
(***************************************************************************)
MaxVal == 1            \* sample values are -1..MaxVal
MaxWindow == 3         \* window_size is 1..MaxWindow
MaxMinSamples == 3     \* min_samples is 1..MaxMinSamples
MaxCalls == 3          \* add_value calls between two resets
MaxAbsZ == 20          \* _calculate_severity inputs are 0/4 .. MaxAbsZ/4
MaxTime == 3           \* event timestamps are 0..MaxTime seconds
MaxWindowSecs == 2     \* metric windows are 1..MaxWindowSecs seconds
MaxEvents == 3         \* add_event calls between two clears
MaxBatch == 2          \* events given to one process_events call
MaxWindowChars == 3    \* characters of a window string
MaxRollWindow == 2     \* rolling windows are 0..MaxRollWindow seconds, or a minute
MaxLines == 3          \* lines of an ingested stream
MaxRollCalls == 3      \* add_event calls on a RollingWindowProcessor
MaxStoreTime == 1      \* stored timestamps are 0..MaxStoreTime
MaxInserts == 2        \* inserts per table

Vals == -1..MaxVal
Stamps == {100, 200}
\* What datetime.now() returns: one of the timestamps
Clock == {200}
Thresholds == {Rat(0, 1), Rat(1, 1), Rat(2, 1)}
\* A computed float against the exact value: just below, equal, just above
Rounding == {-1, 0, 1}
MetricName == "error_count"

(***************************************************************************)
(* AnomalyDetector                                                         *)
(***************************************************************************)

\* collections.deque(maxlen=n).append(x): the head is discarded when full
DequeAppendNoEvict(dq, x, maxlen) == Append(dq, x)
DequeAppend(dq, x, maxlen) ==
    LET a == Append(dq, x) IN IF Len(a) > maxlen THEN Tail(a) ELSE a

\* sum(self.values) / len(self.values), 0.0 when empty
_calculate_mean(vals) ==
    IF vals = <<>> THEN Rat(0, 1) ELSE Rat(SeqSum(vals), Len(vals))

\* (x - mean) ** 2 summed over the window, times mean.den^2
RECURSIVE SqDevSum(_, _)
SqDevSum(vals, mean) ==
    IF vals = <<>> THEN 0
    ELSE (Head(vals) * mean.den - mean.num) * (Head(vals) * mean.den - mean.num)
         + SqDevSum(Tail(vals), mean)

\* The square of _calculate_std: the population variance; 0.0 below 2 samples
_calculate_std_sample(vals, mean) ==
    IF Len(vals) < 2 THEN Rat(0, 1)
    ELSE Rat(SqDevSum(vals, mean), mean.den * mean.den * (Len(vals) - 1))
_calculate_std(vals, mean) ==
    IF Len(vals) < 2 THEN Rat(0, 1)
    ELSE Rat(SqDevSum(vals, mean), mean.den * mean.den * Len(vals))

\* len(self.values) < self.min_samples
TooFewSamplesOffByOne(n) == n < min_samples - 1
TooFewSamplesNever(n) == FALSE
TooFewSamples(n) == n < min_samples

\* std < 1e-10.  With integer samples the variance is 0 or at least 1/n^2,
\* so the standard deviation is below 1e-10 exactly when the variance is 0.
StdTooSmallNever(std) == FALSE
StdTooSmall(std) == std.num = 0

\* The samples the statistics are computed over: self.values, the new value
\* already appended
BaselineWithoutNew(vals) == SubSeq(vals, 1, Len(vals) - 1)
Baseline(vals) == vals

\* z_score = (value - mean) / std : its sign, the square of the exact
\* quotient, and the rounding of the computed magnitude
z_score(value, mean, std, err) ==
    LET d == value * mean.den - mean.num IN
    [sign |-> IF d > 0 THEN 1 ELSE IF d < 0 THEN -1 ELSE 0,
     sq   |-> Rat(d * d * std.den, mean.den * mean.den * std.num),
     err  |-> err]

\* x >= p/q for a non-negative float x = [sq, err] and p/q >= 0
FloatGeqStrict(x, p, q) == x.sq.num * q * q > p * p * x.sq.den
FloatGeq(x, p, q) ==
    \/ x.sq.num * q * q > p * p * x.sq.den
    \/ x.sq.num * q * q = p * p * x.sq.den /\ x.err >= 0

\* abs(z_score) >= self.threshold   (threshold >= 0)
AtThresholdStrict(z, th) == FloatGeqStrict(z, th.num, th.den)
AtThreshold(z, th) == FloatGeq(z, th.num, th.den)

\* _calculate_severity(abs_z_score)
_calculate_severity_strict(abs_z_score) ==
    IF FloatGeqStrict(abs_z_score, 4, 1) THEN "critical"
    ELSE IF FloatGeqStrict(abs_z_score, 3, 1) THEN "high"
    ELSE IF FloatGeqStrict(abs_z_score, 5, 2) THEN "medium"
    ELSE "low"
_calculate_severity(abs_z_score) ==
    IF FloatGeq(abs_z_score, 4, 1) THEN "critical"
    ELSE IF FloatGeq(abs_z_score, 3, 1) THEN "high"
    ELSE IF FloatGeq(abs_z_score, 5, 2) THEN "medium"
    ELSE "low"

\* AnomalyType.SPIKE if z_score > 0 else AnomalyType.DROP
AnomalyTypeOfNonNegative(z) == IF z.sign >= 0 THEN "spike" ELSE "drop"
AnomalyTypeOf(z) == IF z.sign > 0 THEN "spike" ELSE "drop"

\* mean / value if value > 0 else float('inf'), then multiplier >= 2.0
\* (mean > 0).  Written as the specification describes it, a value of 0
\* takes the standard-deviation form.
DropRatioAtLeast2(value, mean) ==
    IF value > 0 THEN mean.num >= 2 * value * mean.den ELSE TRUE

\* _generate_explanation(value, mean, std, z_score, anomaly_type): the
\* sentence without its numbers: the metric it names, its verb, which of the
\* three shapes it has, and whether the multiplier it prints is "inf"
_generate_explanation(value, mean, std, z, anomaly_type) ==
    LET Sentence(verb, form, multiplier) ==
            [metric_name |-> MetricName, verb |-> verb, form |-> form,
             multiplier |-> multiplier]
    IN
    IF anomaly_type = "spike"
    THEN IF mean.num > 0
         THEN IF value * mean.den >= 2 * mean.num
              THEN Sentence("spiked", "x above baseline", "finite")
              ELSE Sentence("spiked", "standard deviations above baseline", "none")
         ELSE Sentence("spiked", "to", "none")
    ELSE IF mean.num > 0
         THEN IF DropRatioAtLeast2(value, mean)
              THEN Sentence("dropped", "x below baseline",
                            IF value > 0 THEN "finite" ELSE "inf")
              ELSE Sentence("dropped", "standard deviations below baseline", "none")
         ELSE Sentence("dropped", "to", "none")

\* Anomaly(metric_name=..., ...) when abs(z_score) >= self.threshold, else
\* None; with it, the rounding of the z-score
Judged(value, timestamp, mean, std, z) ==
    IF AtThreshold(z, threshold)
    THEN [ret |-> [kind          |-> "Anomaly",
                   metric_name   |-> MetricName,
                   timestamp     |-> timestamp,
                   value         |-> value,
                   baseline_mean |-> mean,
                   baseline_std  |-> std,
                   z_score       |-> z,
                   anomaly_type  |-> AnomalyTypeOf(z),
                   explanation   |->
                       _generate_explanation(value, mean, std, z, AnomalyTypeOf(z)),
                   severity      |-> _calculate_severity([sq |-> z.sq, err |-> z.err])],
          round |-> z.err]
    ELSE [ret |-> None, round |-> z.err]

\* mean = self._calculate_mean(); std = self._calculate_std(mean)
Measured(vals, mean) == [mean |-> mean, std |-> _calculate_std(Baseline(vals), mean)]
Statistics(vals) == Measured(vals, _calculate_mean(Baseline(vals)))

\* add_value once the value has been appended, stats being the statistics
\* of the window: the return value, and the rounding of the z-score when one
\* was computed
Detect(vals, stats, value, timestamp, err) ==
    IF TooFewSamples(Len(vals)) THEN [ret |-> None, round |-> 0]
    ELSE IF StdTooSmall(stats.std) THEN [ret |-> None, round |-> 0]
    ELSE Judged(value, timestamp, stats.mean, stats.std,
                z_score(value, stats.mean, stats.std, err))

\* Whether add_value gets as far as computing a z-score
ComputesZ(vals, stats) == ~TooFewSamples(Len(vals)) /\ ~StdTooSmall(stats.std)

\* The exact |z| is one of the numbers the float is compared with: the
\* threshold, or a bound of a severity band
OnBoundary(z) ==
    \E b \in {threshold, Rat(5, 2), Rat(3, 1), Rat(4, 1)} :
        z.sq.num * b.den * b.den = b.num * b.num * z.sq.den

\* The exact |z| is the largest a population of n samples allows,
\* sqrt(n - 1): all the other samples are equal.  The float quotient then
\* falls on one side or the other of it
AtPopulationBound(z, n) == z.sq.num = (n - 1) * z.sq.den
Inexact == Rounding \ {0}
\* Two samples: the deviation and the standard deviation are the same float,
\* half the difference of the two, and their quotient is 1.0 or -1.0
TwoSamples(n) == n = 2

\* How the float z-score may be rounded, kept where a comparison can see it
RoundingsOfZ(z, n) ==
    IF TwoSamples(n) THEN {0}
    ELSE IF OnBoundary(z) THEN Rounding
    ELSE IF AtPopulationBound(z, n) THEN Inexact
    ELSE {0}
Roundings(vals, stats, value) ==
    IF ComputesZ(vals, stats)
    THEN RoundingsOfZ(z_score(value, stats.mean, stats.std, 0), Len(vals))
    ELSE {0}

InitDetector ==
    /\ window_size \in 1..MaxWindow
    /\ threshold \in Thresholds
    /\ min_samples \in 1..MaxMinSamples
    /\ values = <<>>
    /\ timestamps = <<>>
    /\ det_op = "init"
    /\ det_ret = None
    /\ det_submitted = <<>>
    /\ det_round = 0
    /\ det_dropped = FALSE

\* AnomalyDetector.add_value(value, timestamp); a timestamp of None is
\* replaced by datetime.now(), whatever the clock then shows; the float
\* division of the z-score rounds one way or the other
add_value(value, timestamp) ==
    /\ Len(det_submitted) < MaxCalls
    /\ \E appended \in {DequeAppend(values, value, window_size)} :
       \E stats \in {Statistics(appended)} :
       \E ts \in (IF timestamp = NoArg THEN Clock ELSE {timestamp[1]}) :
       \E err \in Roundings(appended, stats, value) :
       \E detected \in {Detect(appended, stats, value, ts, err)} :
          /\ values' = appended
          /\ timestamps' = DequeAppend(timestamps, ts, window_size)
          /\ det_ret' = detected.ret
          /\ det_round' = detected.round
          /\ det_submitted' = Append(det_submitted, <<value, ts>>)
    /\ det_op' = "add_value"
    /\ UNCHANGED <<window_size, threshold, min_samples, det_dropped>>

\* AnomalyDetector.reset()
reset ==
    /\ values' = <<>>
    /\ timestamps' = <<>>
    /\ det_op' = "reset"
    /\ det_ret' = None
    /\ det_submitted' = <<>>
    /\ det_round' = 0
    /\ det_dropped' = (det_dropped \/ values # <<>>)
    /\ UNCHANGED <<window_size, threshold, min_samples>>

(***************************************************************************)
(* MultiMetricAnomalyDetector                                              *)
(* Its window_size, threshold and min_samples are the variables of those   *)
(* names; each detector it creates keeps its own copy of them.             *)
(***************************************************************************)

MetricNames == {"cpu", "memory"}

\* AnomalyDetector(metric_name, window_size, threshold, min_samples)
AnomalyDetector(metric_name, size, tau, samples) ==
    [metric_name |-> metric_name, window_size |-> size, threshold |-> tau,
     min_samples |-> samples, values |-> <<>>, timestamps |-> <<>>]

\* self.detectors[metric_name]: the key a metric's detector is kept under
OneDetectorKey(metric_name) == "cpu"
DetectorKey(metric_name) == metric_name

\* if metric_name not in self.detectors: self.detectors[metric_name] = ...
GetOrCreate(detectors, metric_name) ==
    IF DetectorKey(metric_name) \in DOMAIN detectors THEN detectors
    ELSE (DetectorKey(metric_name) :>
             AnomalyDetector(metric_name, window_size, threshold, min_samples))
         @@ detectors

\* The anomaly a detector returns names the detector's metric
NamedAs(ret, metric_name) ==
    IF ret = None THEN None
    ELSE [ret EXCEPT !.metric_name = metric_name,
                     !.explanation.metric_name = metric_name]

\* detector.add_value(value, timestamp) on the detector d, appended being
\* its buffer with the value: the detector after the call and what it
\* returns.  The detector holds the shared parameters, which Detect reads.
DetectorAddValue(d, appended, value, ts, err) ==
    [detector |-> [d EXCEPT !.values = appended,
                            !.timestamps = DequeAppend(d.timestamps, ts, d.window_size)],
     detected |-> Detect(appended, Statistics(appended), value, ts, err)]

\* add_metric_value(metric_name, value, timestamp) on the detectors given:
\* the detectors after the call, what it returns and the rounding made
AddMetricValue(detectors, metric_name, value, ts, err) ==
    LET created == GetOrCreate(detectors, metric_name)
        key == DetectorKey(metric_name)
        called == DetectorAddValue(created[key],
                      DequeAppend(created[key].values, value, created[key].window_size),
                      value, ts, err)
    IN [detectors |-> [created EXCEPT ![key] = called.detector],
        ret |-> NamedAs(called.detected.ret, created[key].metric_name),
        round |-> called.detected.round]

\* The roundings the float z-score of that call may have
RoundingsOf(detectors, metric_name, value) ==
    LET created == GetOrCreate(detectors, metric_name)
        key == DetectorKey(metric_name)
        appended == DequeAppend(created[key].values, value, created[key].window_size)
    IN Roundings(appended, Statistics(appended), value)

\* The values submitted to all the metrics together
RECURSIVE TotalSubmitted(_, _)
TotalSubmitted(submitted, names) ==
    IF names = {} THEN 0
    ELSE LET n == CHOOSE x \in names : TRUE IN
         Len(submitted[n]) + TotalSubmitted(submitted, names \ {n})

InitMulti ==
    /\ mm_detectors = <<>>
    /\ mm_op = [op |-> "init"]
    /\ mm_ret = None
    /\ mm_submitted = [n \in MetricNames |-> <<>>]
    /\ mm_round = [n \in MetricNames |-> 0]

\* MultiMetricAnomalyDetector.add_metric_value(metric_name, value, timestamp)
add_metric_value(metric_name, value, timestamp) ==
    /\ TotalSubmitted(mm_submitted, MetricNames) < MaxCalls
    /\ \E ts \in (IF timestamp = NoArg THEN Clock ELSE {timestamp[1]}) :
       \E err \in RoundingsOf(mm_detectors, metric_name, value) :
       \E added \in {AddMetricValue(mm_detectors, metric_name, value, ts, err)} :
          /\ mm_detectors' = added.detectors
          /\ mm_ret' = added.ret
          /\ mm_round' = [mm_round EXCEPT ![metric_name] = added.round]
          /\ mm_submitted' =
                [mm_submitted EXCEPT ![metric_name] = Append(@, <<value, ts>>)]
          /\ mm_op' = [op |-> "add_metric_value", metric_name |-> metric_name,
                       value |-> value, timestamp |-> ts]

\* for metric_name, value in metric_values.items(): the items from the i-th
\* on, errs being the rounding of each call; valid when each rounding is one
\* the call may have
RECURSIVE GetAllLoop(_, _, _, _, _, _)
GetAllLoop(detectors, items, ts, errs, i, anomalies) ==
    IF i > Len(items)
    THEN [detectors |-> detectors, anomalies |-> anomalies, valid |-> TRUE]
    ELSE IF errs[i] \notin RoundingsOf(detectors, items[i][1], items[i][2])
    THEN [detectors |-> detectors, anomalies |-> anomalies, valid |-> FALSE]
    ELSE LET added == AddMetricValue(detectors, items[i][1], items[i][2], ts, errs[i]) IN
         GetAllLoop(added.detectors, items, ts, errs, i + 1,
                    IF added.ret # None THEN Append(anomalies, added.ret) ELSE anomalies)

\* MultiMetricAnomalyDetector.get_all_anomalies(metric_values, timestamp),
\* metric_values being the items of the dictionary in its order
get_all_anomalies(metric_values, timestamp) ==
    /\ TotalSubmitted(mm_submitted, MetricNames) + Len(metric_values) <= MaxCalls
    /\ \E ts \in (IF timestamp = NoArg THEN Clock ELSE {timestamp[1]}) :
       \E errs \in [1..Len(metric_values) -> Rounding] :
       \E all \in {GetAllLoop(mm_detectors, metric_values, ts, errs, 1, <<>>)} :
          /\ all.valid
          /\ mm_detectors' = all.detectors
          /\ mm_ret' = all.anomalies
          /\ mm_round' =
                [n \in MetricNames |->
                    IF \E i \in 1..Len(metric_values) : metric_values[i][1] = n
                    THEN errs[CHOOSE i \in 1..Len(metric_values) : metric_values[i][1] = n]
                    ELSE mm_round[n]]
          /\ mm_submitted' =
                [n \in MetricNames |->
                    IF \E i \in 1..Len(metric_values) : metric_values[i][1] = n
                    THEN Append(mm_submitted[n],
                                <<metric_values[CHOOSE i \in 1..Len(metric_values) :
                                                    metric_values[i][1] = n][2], ts>>)
                    ELSE mm_submitted[n]]
          /\ mm_op' = [op |-> "get_all_anomalies", metric_values |-> metric_values,
                       timestamp |-> ts]

(***************************************************************************)
(* Metric                                                                  *)
(***************************************************************************)
Raise(error) == [kind |-> "raise", error |-> error]

\* class AggregationType
ValueAggregations == {"average", "sum", "min", "max", "percentile", "unique_count"}
AggregationType == {"count", "rate"} \cup ValueAggregations

\* A window argument: a str (its characters) or a timedelta (its seconds)
Str(chars) == [kind |-> "str", chars |-> chars]
TimeDelta(seconds) == [kind |-> "timedelta", seconds |-> seconds]

Digits == {"0", "1"}
DigitValue(c) == IF c = "1" THEN 1 ELSE 0
\* unit_map and timedelta(**{unit_map[unit]: value}), in seconds
UnitSeconds(unit) ==
    CASE unit = "s" -> 1 [] unit = "m" -> 60 [] unit = "h" -> 3600 [] unit = "d" -> 86400
\* The characters window strings are written with
Chars == Digits \cup {"s", "m", "h", "d", "M", "x", "\n"}
\* str.lower()
Lower(c) == IF c = "M" THEN "m" ELSE c

\* int(match.group(1))
RECURSIVE ParseInt(_)
ParseInt(digits) ==
    IF digits = <<>> THEN 0
    ELSE 10 * ParseInt(SubSeq(digits, 1, Len(digits) - 1)) + DigitValue(Last(digits))

\* Metric._parse_window(window_str): re.match(r'^(\d+)([smhd])$', lowered);
\* '$' also matches before one trailing newline
_parse_window(window_str) ==
    LET lowered == [i \in 1..Len(window_str) |-> Lower(window_str[i])]
        body == IF lowered # <<>> /\ Last(lowered) = "\n"
                THEN SubSeq(lowered, 1, Len(lowered) - 1) ELSE lowered
        n == Len(body)
    IN  IF /\ n >= 2
           /\ \A i \in 1..(n - 1) : body[i] \in Digits
           /\ body[n] \in {"s", "m", "h", "d"}
        THEN TimeDelta(ParseInt(SubSeq(body, 1, n - 1)) * UnitSeconds(body[n]))
        ELSE Raise("ValueError: Invalid window format")

\* Metric(name, filter, aggregation, window, group_by=..., value_extractor=...,
\* percentile=...) with its __post_init__: the Metric, its window in
\* seconds, or the exception raised
Metric(name, filter, aggregation, window, group_by, value_extractor, percentile) ==
    LET parsed == IF window.kind = "str" THEN _parse_window(window.chars) ELSE window
    IN
    IF name = "" THEN Raise("ValueError: Metric name cannot be empty")
    ELSE IF aggregation \notin AggregationType
    THEN Raise("ValueError: Unknown aggregation type")
    ELSE IF window.kind \notin {"str", "timedelta"}
    THEN Raise("ValueError: window must be a string or timedelta")
    ELSE IF parsed.kind = "raise" THEN parsed
    ELSE IF aggregation = "percentile" /\ percentile = NoArg
    THEN Raise("ValueError: percentile must be specified")
    ELSE IF aggregation = "percentile" /\ ~(0 <= percentile[1] /\ percentile[1] <= 100)
    THEN Raise("ValueError: percentile must be between 0 and 100")
    ELSE [kind |-> "Metric", name |-> name, filter |-> filter,
          aggregation |-> aggregation, window |-> parsed.seconds,
          group_by |-> group_by, value_extractor |-> value_extractor,
          percentile |-> percentile]

(***************************************************************************)
(* MetricProcessor                                                         *)
(***************************************************************************)
Levels == {"ERROR", "INFO"}
LogEvents == [timestamp : 0..MaxTime, level : Levels]
Windows == 1..MaxWindowSecs
Names == {"first", "second"}
EmptyMap == [n \in {} |-> None]

\* A metric value (count, mean, rate), as a rational
Num(n, d) == [kind |-> "Num", num |-> n, den |-> d]

\* Metric(name, filter, aggregation, window) and its keyword arguments
Plain(name, filter, aggregation, w) ==
    Metric(name, filter, aggregation, TimeDelta(w), "none", "none", NoArg)
Extracting(name, filter, aggregation, w) ==
    Metric(name, filter, aggregation, TimeDelta(w), "none", "seconds", NoArg)
Grouped(name, filter, aggregation, w) ==
    Metric(name, filter, aggregation, TimeDelta(w), "level", "none", NoArg)
Percentile(name, filter, w, p) ==
    Metric(name, filter, "percentile", TimeDelta(w), "none", "none", Some(p))

\* The processors the model is run with: lists of metrics with distinct names
ProcessorConfigs ==
    UNION {
      { <<Plain("first", "error", "count", w)>>,
        <<Plain("first", "all", "count", w), Plain("second", "error", "average", w)>>,
        <<Plain("first", "partial", "count", w), Plain("second", "all", "count", w)>>,
        <<Extracting("first", "all", "average", w)>>,
        <<Grouped("first", "all", "count", w)>>,
        <<Plain("first", "all", "rate", w)>>,
        <<Plain("first", "error", "count", w), Plain("second", "error", "average", w)>>
      } : w \in Windows }
    \cup { <<Plain("first", "error", a, 1)>> : a \in ValueAggregations \ {"average", "percentile"} }
    \cup { <<Percentile("first", "error", 1, 50)>> }

\* Lists the constructor accepts although two metrics share a name
DuplicateNameConfigs ==
    UNION {
      { <<Plain("first", "all", "count", w), Plain("first", "all", "count", w)>>,
        <<Plain("first", "all", "count", w), Plain("first", "error", "count", 1)>>,
        <<Plain("first", "error", "count", w), Extracting("first", "all", "sum", w)>>
      } : w \in Windows }

\* The processors process_events is run with
BatchConfigs ==
    UNION {
      { <<Plain("first", "error", "count", w), Plain("second", "all", "rate", w)>>,
        <<Plain("first", "all", "count", w), Plain("second", "error", "average", w)>>
      } : w \in Windows }

\* metric.filter(event), a caller-supplied predicate:
\*   "all"     lambda e: True
\*   "error"   lambda e: e.level == 'ERROR'
\*   "partial" a predicate written for ERROR events, which raises on any
\*             other event
Filter(metric, event) ==
    CASE metric.filter = "all" -> "True"
      [] metric.filter = "error" ->
            IF event.level = "ERROR" THEN "True" ELSE "False"
      [] metric.filter = "partial" ->
            IF event.level = "ERROR" THEN "True" ELSE "raise"

\* metric.value_extractor(event): "seconds" is lambda e: e.timestamp.second
Extract(metric, event) == event.timestamp

\* metric.group_by(event): "level" is lambda e: e.level
GroupBy(metric, event) == event.level

RECURSIVE ExtractAll(_, _)
ExtractAll(metric, evs) ==
    IF evs = <<>> THEN <<>>
    ELSE <<Extract(metric, Head(evs))>> \o ExtractAll(metric, Tail(evs))

\* while window_events and window_events[0].timestamp < window_start:
\*     window_events.pop(0)
RECURSIVE PopExpiredInclusive(_, _)
PopExpiredInclusive(window_events, window_start) ==
    IF window_events # <<>> /\ Head(window_events).timestamp <= window_start
    THEN PopExpiredInclusive(Tail(window_events), window_start)
    ELSE window_events
RECURSIVE PopExpired(_, _)
PopExpired(window_events, window_start) ==
    IF window_events # <<>> /\ Head(window_events).timestamp < window_start
    THEN PopExpired(Tail(window_events), window_start)
    ELSE window_events

\* COUNT: len(events)
AggCountDistinct(evs) == Num(Cardinality({evs[i] : i \in 1..Len(evs)}), 1)
AggCount(evs) == Num(Len(evs), 1)

\* RATE: float(len(events)) when time_span == 0,
\* len(events) / time_span if time_span > 0 else 0.0
RateOfZeroSpan(n, time_span) ==
    IF time_span > 0 THEN Num(n, time_span) ELSE Num(0, 1)
RateOf(n, time_span) ==
    IF time_span = 0 THEN Num(n, 1)
    ELSE IF time_span > 0 THEN Num(n, time_span) ELSE Num(0, 1)

\* if not metric.value_extractor
MissingExtractorNever(metric) == FALSE
MissingExtractor(metric) == metric.value_extractor = "none"

\* sorted(values)[index], index counted from 0
SortedAt(vals, index) ==
    CHOOSE v \in {vals[i] : i \in 1..Len(vals)} :
        /\ Cardinality({i \in 1..Len(vals) : vals[i] < v}) <= index
        /\ Cardinality({i \in 1..Len(vals) : vals[i] <= v}) > index

\* MetricProcessor._apply_aggregation(metric, events): the value, or the
\* exception raised
_apply_aggregation(metric, evs) ==
    IF evs = <<>>
    THEN (IF metric.aggregation = "count" THEN Num(0, 1) ELSE None)
    ELSE CASE metric.aggregation = "count" -> AggCount(evs)
           [] metric.aggregation = "rate" ->
                RateOf(Len(evs), Last(evs).timestamp - Head(evs).timestamp)
           [] metric.aggregation \in ValueAggregations ->
                IF MissingExtractor(metric)
                THEN Raise("ValueError: value_extractor required")
                ELSE LET vals == ExtractAll(metric, evs)
                         range == {vals[i] : i \in 1..Len(vals)}
                     IN  CASE metric.aggregation = "average" ->
                                Num(SeqSum(vals), Len(vals))
                           [] metric.aggregation = "sum" -> Num(SeqSum(vals), 1)
                           [] metric.aggregation = "min" ->
                                Num(CHOOSE v \in range : \A u \in range : v <= u, 1)
                           [] metric.aggregation = "max" ->
                                Num(CHOOSE v \in range : \A u \in range : u <= v, 1)
                           [] metric.aggregation = "percentile" ->
                                Num(SortedAt(vals,
                                       (metric.percentile[1] * (Len(vals) - 1)) \div 100), 1)
                           [] metric.aggregation = "unique_count" ->
                                Num(Cardinality(range), 1)

\* grouped_events[group_key]: the events of one group, in buffer order
GroupEventsAll(metric, evs, group_key) == evs
GroupEvents(metric, evs, group_key) ==
    SelectSeq(evs, LAMBDA e : GroupBy(metric, e) = group_key)

\* MetricResult(metric_name=..., value=..., window_start=..., window_end=...,
\* grouped_values=...)
MetricResult(metric, value, window_start, window_end, grouped_values) ==
    [kind           |-> "MetricResult",
     metric_name    |-> metric.name,
     value          |-> value,
     window_start   |-> window_start,
     window_end     |-> window_end,
     grouped_values |-> grouped_values]

\* grouped_values[group_key] = self._apply_aggregation(metric, group_events)
GroupedValues(metric, filtered_events) ==
    [k \in {GroupBy(metric, filtered_events[i]) : i \in 1..Len(filtered_events)} |->
        _apply_aggregation(metric, GroupEvents(metric, filtered_events, k))]

\* The result with a grouped map, unless aggregating a group raised
GroupedResult(metric, grouped_values, window_start, window_end) ==
    IF \E k \in DOMAIN grouped_values : grouped_values[k].kind = "raise"
    THEN Raise("ValueError: value_extractor required")
    ELSE MetricResult(metric, None, window_start, window_end, grouped_values)

\* The result with a single value, unless aggregating raised
SingleResult(metric, value, window_start, window_end) ==
    IF value.kind = "raise" THEN value
    ELSE MetricResult(metric, value, window_start, window_end, None)

\* _compute_metric once the events are filtered again
Aggregated(metric, filtered_events, window_start, window_end) ==
    IF metric.group_by # "none"
    THEN GroupedResult(metric, GroupedValues(metric, filtered_events),
                       window_start, window_end)
    ELSE SingleResult(metric, _apply_aggregation(metric, filtered_events),
                      window_start, window_end)

\* MetricProcessor._compute_metric(metric, events, window_start, window_end):
\* the MetricResult, or the exception raised
_compute_metric(metric, evs, window_start, window_end) ==
    IF \E i \in 1..Len(evs) : Filter(metric, evs[i]) = "raise"
    THEN Raise("filter")
    ELSE Aggregated(metric, SelectSeq(evs, LAMBDA e : Filter(metric, e) = "True"),
                    window_start, window_end)

\* The end of one iteration of that loop, from the buffer after eviction:
\* the buffer is kept, the result is computed and stored
Stored(kept, metric, result) ==
    IF result.kind = "raise" THEN [kept EXCEPT !.raised = result]
    ELSE [kept EXCEPT !.results[metric.name] = result,
                      !.updated = (metric.name :> result) @@ @]
Computed(st, metric, event, window_events, window_start, now) ==
    Stored([st EXCEPT !.windows[metric.name] = window_events,
                      !.matched[metric.name] = Append(@, event)],
           metric,
           _compute_metric(metric, window_events, window_start, now))

\* "if not metric.filter(event): continue": the metric is passed over
ContinueExpiring(st, metric, event) ==
    [st EXCEPT !.windows[metric.name] = PopExpired(@, event.timestamp - metric.window)]
Continue(st, metric, event) == st

\* One iteration of the loop "for metric in self.metrics" of add_event.
\* st carries the processor's dictionaries, updated_metrics, and the
\* exception once one is raised.
AddEventStep(st, metric, event) ==
    LET matches == Filter(metric, event) IN
    IF matches = "raise" THEN [st EXCEPT !.raised = Raise("filter")]
    ELSE IF matches = "False" THEN Continue(st, metric, event)
    ELSE
      LET now == event.timestamp
          window_start == now - metric.window
      IN  Computed(st, metric, event,
                   PopExpired(Append(st.windows[metric.name], event), window_start),
                   window_start, now)

RECURSIVE AddEventLoop(_, _, _)
AddEventLoop(i, st, event) ==
    IF i > Len(metrics) \/ st.raised # None THEN st
    ELSE AddEventLoop(i + 1, AddEventStep(st, metrics[i], event), event)

\* One call of add_event on the processor state st: the state after it, the
\* mapping it returns or the exception it raises, and per name the result
\* add_event last returned to its caller
Return(done) ==
    IF done.raised # None THEN done
    ELSE [done EXCEPT !.returned =
             [n \in Names |-> IF n \in DOMAIN done.updated
                              THEN done.updated[n] ELSE done.returned[n]]]
AddEvent(st, event) ==
    Return(AddEventLoop(1, [st EXCEPT !.updated = EmptyMap, !.raised = None], event))

\* The processor as a record
Processor ==
    [windows |-> metric_windows, results |-> metric_results,
     matched |-> mp_matched, returned |-> mp_returned,
     updated |-> EmptyMap, raised |-> None]

InitProcessor ==
    /\ metrics \in ProcessorConfigs
    /\ metric_windows = [n \in Names |-> <<>>]
    /\ metric_results = [n \in Names |-> None]
    /\ mp_op = "init"
    /\ mp_ret = None
    /\ mp_submitted = <<>>
    /\ mp_matched = [n \in Names |-> <<>>]
    /\ mp_returned = [n \in Names |-> None]
    /\ mp_dropped = FALSE

\* MetricProcessor.add_event(event)
add_event(event) ==
    /\ Len(mp_submitted) < MaxEvents
    /\ \E st \in {AddEvent(Processor, event)} :
           /\ metric_windows' = st.windows
           /\ metric_results' = st.results
           /\ mp_matched' = st.matched
           /\ mp_returned' = st.returned
           /\ mp_ret' = IF st.raised # None THEN st.raised
                        ELSE [kind |-> "ok", updated |-> st.updated]
    /\ mp_submitted' = Append(mp_submitted, event)
    /\ mp_op' = "add_event"
    /\ UNCHANGED <<metrics, mp_dropped>>

\* MetricProcessor.get_metric(metric_name): self.metric_results.get(name)
get_metric(metric_name) ==
    IF metric_name \in DOMAIN metric_results THEN metric_results[metric_name] ELSE None

\* all_updates[metric_name].append(result) for the items of updated
CollectLast(all_updates, updated) ==
    [n \in DOMAIN all_updates \cup DOMAIN updated |->
        IF n \in DOMAIN updated THEN <<updated[n]>> ELSE all_updates[n]]
Collect(all_updates, updated) ==
    [n \in DOMAIN all_updates \cup DOMAIN updated |->
        IF n \in DOMAIN updated
        THEN (IF n \in DOMAIN all_updates THEN all_updates[n] ELSE <<>>) \o <<updated[n]>>
        ELSE all_updates[n]]

\* The loop "for event in events" of process_events: acc carries the
\* processor, all_updates and the number of events taken from the iterator;
\* an exception of add_event ends the loop
Collected(acc, st) ==
    [st |-> st,
     all_updates |-> IF st.raised # None THEN acc.all_updates
                     ELSE Collect(acc.all_updates, st.updated),
     taken |-> acc.taken + 1]
RECURSIVE ProcessEventsLoop(_, _)
ProcessEventsLoop(acc, evs) ==
    IF evs = <<>> \/ acc.st.raised # None THEN acc
    ELSE ProcessEventsLoop(Collected(acc, AddEvent(acc.st, Head(evs))), Tail(evs))

\* MetricProcessor.process_events(events)
process_events(evs) ==
    /\ Len(mp_submitted) + Len(evs) <= MaxEvents
    /\ \E acc \in {ProcessEventsLoop(
                     [st |-> Processor, all_updates |-> EmptyMap, taken |-> 0], evs)} :
           /\ metric_windows' = acc.st.windows
           /\ metric_results' = acc.st.results
           /\ mp_matched' = acc.st.matched
           /\ mp_returned' = acc.st.returned
           /\ mp_ret' = IF acc.st.raised # None THEN acc.st.raised
                        ELSE [kind |-> "ok", all_updates |-> acc.all_updates]
           /\ mp_submitted' = mp_submitted \o SubSeq(evs, 1, acc.taken)
    /\ mp_op' = "process_events"
    /\ UNCHANGED <<metrics, mp_dropped>>

\* MetricProcessor.get_all_metrics(): self.metric_results.copy()
get_all_metrics ==
    [n \in {m \in Names : metric_results[m] # None} |-> metric_results[n]]

\* Whether the processor holds a buffered event or a result
HoldsData ==
    \E n \in Names : metric_windows[n] # <<>> \/ metric_results[n] # None

\* MetricProcessor.clear()
clearWindowsOnly ==
    /\ metric_windows' = [n \in Names |-> <<>>]
    /\ metric_results' = metric_results
    /\ mp_op' = "clear"
    /\ mp_ret' = None
    /\ mp_submitted' = <<>>
    /\ mp_matched' = [n \in Names |-> <<>>]
    /\ mp_returned' = [n \in Names |-> None]
    /\ mp_dropped' = (mp_dropped \/ HoldsData)
    /\ UNCHANGED metrics
clear ==
    /\ metric_windows' = [n \in Names |-> <<>>]
    /\ metric_results' = [n \in Names |-> None]
    /\ mp_op' = "clear"
    /\ mp_ret' = None
    /\ mp_submitted' = <<>>
    /\ mp_matched' = [n \in Names |-> <<>>]
    /\ mp_returned' = [n \in Names |-> None]
    /\ mp_dropped' = (mp_dropped \/ HoldsData)
    /\ UNCHANGED metrics

(***************************************************************************)
(* Metric construction on its own                                          *)
(***************************************************************************)
\* Strings of at most n characters
RECURSIVE Strings(_)
Strings(n) ==
    IF n = 0 THEN {<<>>}
    ELSE Strings(n - 1) \cup {Append(str, c) : str \in Strings(n - 1), c \in Chars}

\* The window arguments tried: strings, timedeltas of -1 .. MaxWindowSecs
\* seconds, and a bare number
WindowArgs ==
    {Str(chars) : chars \in Strings(MaxWindowChars)}
        \cup {TimeDelta(k) : k \in -1..MaxWindowSecs}
        \cup {[kind |-> "int", seconds |-> 300]}

\* The arguments a Metric is constructed with
MetricArgs ==
    [name : {"", "first"}, aggregation : {"count", "percentile", "median"},
     window : WindowArgs, percentile : {NoArg, Some(50), Some(101)}]

\* No Metric has been constructed
IdleMetric == new_metric = [args |-> None, ret |-> None]

InitMetric == new_metric \in {[args |-> a, ret |-> None] : a \in MetricArgs}

\* Metric(name, filter, aggregation, window, percentile=...)
NewMetric ==
    /\ new_metric.ret = None
    /\ new_metric' =
           [new_metric EXCEPT !.ret =
               Metric(new_metric.args.name, "all", new_metric.args.aggregation,
                      new_metric.args.window, "none", "none",
                      new_metric.args.percentile)]

(***************************************************************************)
(* RollingWindowProcessor                                                  *)
(* add_event on a tumbling window is followed step by step: the loop that  *)
(* starts new windows until the event fits takes one step per iteration.   *)
(***************************************************************************)
\* class WindowType
WindowType == {"sliding", "tumbling"}
\* The window_size arguments tried, in seconds: the constructor takes any
\* timedelta
RollWindows == (0..MaxRollWindow) \cup {60}

\* The events a RollingWindowProcessor is given: a timestamp, and a level
\* and source out of these
RollKinds == {<<"FATAL", "app">>, <<"WARNING", "db">>, <<"INFO", "app">>}
RollEvents ==
    {[timestamp |-> t, level |-> k[1], source |-> k[2]] : t \in 0..MaxTime, k \in RollKinds}

\* WindowMetrics(start_time, end_time); the two defaultdict(int) are maps
\* holding the keys counted so far
WindowMetrics(start_time, end_time) ==
    [kind |-> "WindowMetrics", start_time |-> start_time, end_time |-> end_time,
     total_events |-> 0, events_by_level |-> EmptyMap, events_by_source |-> EmptyMap,
     error_count |-> 0, warning_count |-> 0]

\* d[key] += 1 on a defaultdict(int)
AddOne(d, key) ==
    IF key \in DOMAIN d THEN [d EXCEPT ![key] = @ + 1] ELSE d @@ (key :> 1)

\* _update_metrics(metrics, event)
_update_metrics(wm, event) ==
    [wm EXCEPT !.total_events = @ + 1,
               !.events_by_level = AddOne(@, event.level),
               !.events_by_source = AddOne(@, event.source),
               !.error_count = IF event.level \in {"ERROR", "CRITICAL", "FATAL"}
                               THEN @ + 1 ELSE @,
               !.warning_count = IF event.level \notin {"ERROR", "CRITICAL", "FATAL"}
                                    /\ event.level = "WARNING"
                                 THEN @ + 1 ELSE @]

\* The tests of _add_event_tumbling on the event's time: too old for the
\* current window, or in a future window
NeverTooOld(event_time, current_window_start) == FALSE
TooOld(event_time, current_window_start) == event_time < current_window_start
PastWindowEnd(event_time, current_window_end) == event_time > current_window_end
InFutureWindow(event_time, current_window_end) == event_time >= current_window_end

\* self.events.clear() when a new window is initialized
EventsKept(buffer) == buffer
EventsCleared(buffer) == <<>>

\* _align_window_start(event_time), times being seconds since midnight
_align_window_start(event_time, size) ==
    IF size >= 86400 THEN event_time - (event_time % 86400)
    ELSE IF size >= 3600 THEN event_time - (event_time % 3600)
    ELSE IF size >= 60 THEN event_time - (event_time % 60)
    ELSE event_time

\* _calculate_metrics(start_time, end_time) of a sliding window: the events
\* of the buffer with start_time <= timestamp <= end_time
RECURSIVE UpdateAll(_, _)
UpdateAll(wm, evs) ==
    IF evs = <<>> THEN wm ELSE UpdateAll(_update_metrics(wm, Head(evs)), Tail(evs))
_calculate_metrics(evs, start_time, end_time) ==
    UpdateAll(WindowMetrics(start_time, end_time),
              SelectSeq(evs, LAMBDA e : start_time <= e.timestamp /\ e.timestamp <= end_time))

InitRolling ==
    /\ rw_window_size \in RollWindows
    /\ rw_window_type \in WindowType
    /\ rw_events = <<>>
    /\ rw_current_metrics = None
    /\ rw_current_window_start = NoArg
    /\ rw_current_window_end = NoArg
    /\ rw_completed_windows = <<>>
    /\ rw_pc = "idle"
    /\ rw_event = None
    /\ rw_completed_window = None
    /\ rw_ret = None
    /\ rw_calls = 0

\* RollingWindowProcessor._add_event_sliding(event)
_add_event_sliding(event) ==
    /\ rw_pc = "idle"
    /\ rw_window_type = "sliding"
    /\ rw_calls < MaxRollCalls
    /\ LET window_end == event.timestamp
           window_start == window_end - rw_window_size
           kept == PopExpired(Append(rw_events, event), window_start)
           computed == _calculate_metrics(kept, window_start, window_end)
       IN  /\ rw_events' = kept
           /\ rw_current_metrics' = computed
           /\ rw_ret' = computed
    /\ rw_calls' = rw_calls + 1
    /\ UNCHANGED <<rw_window_size, rw_window_type, rw_current_window_start,
                   rw_current_window_end, rw_completed_windows, rw_pc, rw_event,
                   rw_completed_window>>

\* RollingWindowProcessor._add_event_tumbling(event), up to the loop: the
\* first window is initialized; an event before the window is skipped, one
\* inside it is added, one after it completes the window and enters the loop
_add_event_tumbling(event) ==
    /\ rw_pc = "idle"
    /\ rw_window_type = "tumbling"
    /\ rw_calls < MaxRollCalls
    /\ rw_calls' = rw_calls + 1
    /\ rw_event' = event
    /\ LET event_time == event.timestamp
           first == rw_current_window_start = NoArg
           start == IF first THEN _align_window_start(event_time, rw_window_size)
                    ELSE rw_current_window_start[1]
           end == IF first THEN start + rw_window_size ELSE rw_current_window_end[1]
           current == IF first THEN WindowMetrics(start, end) ELSE rw_current_metrics
       IN  /\ rw_current_window_start' = Some(start)
           /\ rw_current_window_end' = Some(end)
           /\ IF TooOld(event_time, start)
              THEN /\ rw_ret' = None
                   /\ rw_current_metrics' = current
                   /\ UNCHANGED <<rw_events, rw_completed_windows, rw_pc,
                                  rw_completed_window>>
              ELSE IF InFutureWindow(event_time, end)
              THEN /\ rw_completed_window' = current
                   /\ rw_completed_windows' = Append(rw_completed_windows, current)
                   /\ rw_current_metrics' = current
                   /\ rw_pc' = "catch up"
                   /\ UNCHANGED <<rw_events, rw_ret>>
              ELSE /\ rw_events' = Append(rw_events, event)
                   /\ rw_current_metrics' = _update_metrics(current, event)
                   /\ rw_ret' = None
                   /\ UNCHANGED <<rw_completed_windows, rw_pc, rw_completed_window>>
    /\ UNCHANGED <<rw_window_size, rw_window_type>>

\* One iteration of
\*   while event_time >= self.current_window_end:
\*       self.current_window_start = self.current_window_end
\*       self.current_window_end = self.current_window_start + self.window_size
StartNextWindow ==
    /\ rw_pc = "catch up"
    /\ InFutureWindow(rw_event.timestamp, rw_current_window_end[1])
    /\ rw_current_window_start' = rw_current_window_end
    /\ rw_current_window_end' = Some(rw_current_window_end[1] + rw_window_size)
    /\ UNCHANGED <<rw_window_size, rw_window_type, rw_events, rw_current_metrics,
                   rw_completed_windows, rw_pc, rw_event, rw_completed_window,
                   rw_ret, rw_calls>>

\* The end of _add_event_tumbling once the loop is left: the new window is
\* initialized, the event added to it, the completed window returned
AddToNewWindow ==
    /\ rw_pc = "catch up"
    /\ ~InFutureWindow(rw_event.timestamp, rw_current_window_end[1])
    /\ rw_current_metrics' =
           _update_metrics(WindowMetrics(rw_current_window_start[1],
                                         rw_current_window_end[1]), rw_event)
    /\ rw_events' = Append(EventsCleared(rw_events), rw_event)
    /\ rw_ret' = rw_completed_window
    /\ rw_pc' = "idle"
    /\ rw_completed_window' = None
    /\ UNCHANGED <<rw_window_size, rw_window_type, rw_current_window_start,
                   rw_current_window_end, rw_completed_windows, rw_calls, rw_event>>

\* RollingWindowProcessor.get_event_count()
get_event_count == Len(rw_events)

(***************************************************************************)
(* LogStorage                                                              *)
(* A row of events is (id, timestamp, level, source); a row of metrics is  *)
(* (id, metric_name, window_start, window_end, value, grouped_values).     *)
(* SQL NULL is None.                                                       *)
(***************************************************************************)
StoreTimes == 0..MaxStoreTime
Sources == {"app", "db"}

SetMax(S) == CHOOSE x \in S : \A y \in S : y <= x

\* SELECT COALESCE(MAX(id), 0) + 1 FROM <table>
NextId(rows) ==
    IF rows = {} THEN 1 ELSE SetMax({r.id : r \in rows}) + 1

\* self.conn.execute(...) on a connection that was closed
ConnectionClosed == Raise("duckdb.ConnectionException")

\* Python's truth value of an optional str, int or datetime argument: None,
\* '' and 0 are false, every datetime is true
TruthyStr(arg) == arg # NoArg /\ arg[1] # ""
TruthyInt(arg) == arg # NoArg /\ arg[1] # 0
TruthyTime(arg) == arg # NoArg

\* json.dumps(x) if x else None, x an optional dict
JsonOrNull(arg) ==
    IF arg # NoArg /\ DOMAIN arg[1] # {} THEN [kind |-> "JSON", dict |-> arg[1]] ELSE None

\* The callers that write to one store, and a caller not inside insert_event
Writers == {"w1", "w2"}
Idle == [pc |-> "idle"]

InitStore ==
    /\ events = {}
    /\ metric_rows = {}
    /\ db_conn = "open"
    /\ db_op = [op |-> "init"]
    /\ db_query = None
    /\ event_ids = <<>>
    /\ metric_ids = <<>>
    /\ db_with = "outside"
    /\ db_writers = [w \in Writers |-> Idle]

\* A call on a closed store: the first statement on self.conn raises
FailsClosed(op) ==
    /\ db_conn = "closed"
    /\ db_op' = [op |-> op, ret |-> ConnectionClosed]
    /\ UNCHANGED <<events, metric_rows, db_conn, db_query, event_ids, metric_ids, db_with, db_writers>>

\* LogStorage.insert_event(event)
insert_event(event) ==
    \/ FailsClosed("insert_event")
    \/ /\ db_conn = "open"
       /\ Len(event_ids) < MaxInserts
       /\ LET next_id == NextId(events) IN
            /\ events' = events \cup {[id |-> next_id, timestamp |-> event.timestamp,
                                       level |-> event.level, source |-> event.source]}
            /\ event_ids' = Append(event_ids, next_id)
            /\ db_op' = [op |-> "insert_event", ret |-> next_id]
       /\ UNCHANGED <<metric_rows, db_conn, db_query, metric_ids, db_with, db_writers>>

\* LogStorage.insert_metric(metric_name, window_start, window_end, value=None,
\* grouped_values=None): value is None or a number, grouped_values an
\* optional dict
insert_metric(metric_name, window_start, window_end, value, grouped_values) ==
    \/ FailsClosed("insert_metric")
    \/ /\ db_conn = "open"
       /\ Len(metric_ids) < MaxInserts
       /\ LET next_id == NextId(metric_rows) IN
            /\ metric_rows' = metric_rows \cup
                   {[id |-> next_id, metric_name |-> metric_name,
                     window_start |-> window_start, window_end |-> window_end,
                     value |-> value, grouped_values |-> JsonOrNull(grouped_values)]}
            /\ metric_ids' = Append(metric_ids, next_id)
            /\ db_op' = [op |-> "insert_metric", ret |-> next_id]
       /\ UNCHANGED <<events, db_conn, db_query, event_ids, db_with, db_writers>>

\* The rows the WHERE clause of query_events keeps: a condition is added
\* for an argument that is true
Selected(rows, q) ==
    {r \in rows :
        /\ TruthyTime(q.start_time) => r.timestamp >= q.start_time[1]
        /\ TruthyTime(q.end_time) => r.timestamp <= q.end_time[1]
        /\ TruthyStr(q.level) => r.level = q.level[1]
        /\ TruthyStr(q.source) => r.source = q.source[1]}

\* ORDER BY timestamp DESC: the orders the engine may return the rows in
OrderedDesc(rows) ==
    {s \in [1..Cardinality(rows) -> rows] :
        /\ \A i, j \in 1..Cardinality(rows) : i # j => s[i] # s[j]
        /\ \A i \in 1..(Cardinality(rows) - 1) : s[i].timestamp >= s[i + 1].timestamp}

\* LIMIT {limit} if limit
Limited(rows, limit) ==
    IF TruthyInt(limit) THEN SubSeq(rows, 1, Min(limit[1], Len(rows))) ELSE rows

\* LogStorage.query_events(start_time, end_time, level, source, limit), the
\* arguments being those of db_query
query_events ==
    /\ db_query # None
    /\ \/ FailsClosed("query_events")
       \/ /\ db_conn = "open"
          /\ \E ordered \in OrderedDesc(Selected(events, db_query)) :
                db_op' = [op |-> "query_events", ret |-> Limited(ordered, db_query.limit)]
          /\ UNCHANGED <<events, metric_rows, db_conn, db_query, event_ids, metric_ids, db_with, db_writers>>

\* The rows the WHERE clause of query_metrics keeps
SelectedMetrics(rows, q) ==
    {r \in rows :
        /\ TruthyStr(q.metric_name) => r.metric_name = q.metric_name[1]
        /\ TruthyTime(q.start_time) => r.window_start >= q.start_time[1]
        /\ TruthyTime(q.end_time) => r.window_end <= q.end_time[1]}

\* ORDER BY window_start DESC: the orders the engine may return the rows in
OrderedByStartDesc(rows) ==
    {s \in [1..Cardinality(rows) -> rows] :
        /\ \A i, j \in 1..Cardinality(rows) : i # j => s[i] # s[j]
        /\ \A i \in 1..(Cardinality(rows) - 1) : s[i].window_start >= s[i + 1].window_start}

\* LogStorage.query_metrics(metric_name, start_time, end_time, limit), the
\* arguments being those of db_query
query_metrics ==
    /\ db_query # None
    /\ \/ FailsClosed("query_metrics")
       \/ /\ db_conn = "open"
          /\ \E ordered \in OrderedByStartDesc(SelectedMetrics(metric_rows, db_query)) :
                db_op' = [op |-> "query_metrics", ret |-> Limited(ordered, db_query.limit)]
          /\ UNCHANGED <<events, metric_rows, db_conn, db_query, event_ids, metric_ids, db_with, db_writers>>

\* WHERE timestamp < ?  and  WHERE window_end < ?
NotAfter(time, before_date) == time <= before_date
Before(time, before_date) == time < before_date

\* LogStorage.delete_old_events(before_date)
delete_old_events(before_date) ==
    \/ FailsClosed("delete_old_events")
    \/ /\ db_conn = "open"
       /\ LET old == {r \in events : Before(r.timestamp, before_date)} IN
            /\ events' = events \ old
            /\ db_op' = [op |-> "delete_old_events", before_date |-> before_date,
                         ret |-> Cardinality(old)]
       /\ UNCHANGED <<metric_rows, db_conn, db_query, event_ids, metric_ids, db_with, db_writers>>

\* LogStorage.delete_old_metrics(before_date)
delete_old_metrics(before_date) ==
    \/ FailsClosed("delete_old_metrics")
    \/ /\ db_conn = "open"
       /\ LET old == {r \in metric_rows : Before(r.window_end, before_date)} IN
            /\ metric_rows' = metric_rows \ old
            /\ db_op' = [op |-> "delete_old_metrics", before_date |-> before_date,
                         ret |-> Cardinality(old)]
       /\ UNCHANGED <<events, db_conn, db_query, event_ids, metric_ids, db_with, db_writers>>

(***************************************************************************)
(* MetricQuery: SQL over the metrics table of a LogStorage                 *)
(***************************************************************************)

\* TimeBucket, the two finest units. Times are seconds counted from the
\* start of a minute, so DATE_TRUNC to a unit rounds down to its multiple.
TimeBucket == {"second", "minute"}
TruncSeconds(bucket_size) == IF bucket_size = "second" THEN 1 ELSE 60

\* MetricQuery._get_time_bucket_expr(bucket_size): DATE_TRUNC(unit, window_start)
_get_time_bucket_expr(bucket_size, window_start) ==
    window_start - (window_start % TruncSeconds(bucket_size))

\* AND value IS NOT NULL
AnyValue(r) == TRUE
ValueIsNotNull(r) == r.value # None

\* The rows the WHERE clause of query_metrics_by_time_bucket keeps
BucketSelected(rows, q) ==
    {r \in rows :
        /\ r.metric_name = q.metric_name
        /\ TruthyTime(q.start_time) => r.window_start >= q.start_time[1]
        /\ TruthyTime(q.end_time) => r.window_end <= q.end_time[1]
        /\ ValueIsNotNull(r)}

\* SUM(value) over rows, the values being whole numbers
RECURSIVE SumValue(_)
SumValue(rows) ==
    IF rows = {} THEN 0
    ELSE LET r == CHOOSE x \in rows : TRUE IN r.value.num + SumValue(rows \ {r})

\* {aggregation}(value) over the rows of one group: an SQL aggregate skips
\* the NULL values, and AVG and SUM of no value are NULL
AggregateOf(aggregation, valued) ==
    CASE aggregation = "COUNT" -> Num(Cardinality(valued), 1)
      [] aggregation = "AVG" ->
            IF valued = {} THEN None ELSE Num(SumValue(valued), Cardinality(valued))
      [] aggregation = "SUM" ->
            IF valued = {} THEN None ELSE Num(SumValue(valued), 1)
AggregateValue(aggregation, rows) ==
    AggregateOf(aggregation, {r \in rows : r.value # None})

\* GROUP BY bucket_time: one result row for each bucket of the kept rows
BucketRow(kept, q, bucket_time) ==
    LET group == {r \in kept :
                    _get_time_bucket_expr(q.bucket_size, r.window_start) = bucket_time} IN
    [bucket_time |-> bucket_time,
     metric_value |-> AggregateValue(q.aggregation, group),
     sample_count |-> Cardinality(group)]

\* ORDER BY bucket_time
OrderedAscending(times) ==
    CHOOSE s \in [1..Cardinality(times) -> times] :
        \A i \in 1..(Cardinality(times) - 1) : s[i] < s[i + 1]

GroupedByBucket(kept, q) ==
    LET ordered == OrderedAscending(
                      {_get_time_bucket_expr(q.bucket_size, r.window_start) : r \in kept}) IN
    [i \in 1..Len(ordered) |-> BucketRow(kept, q, ordered[i])]

\* MetricQuery.query_metrics_by_time_bucket(metric_name, bucket_size,
\* start_time, end_time, aggregation), the arguments being those of db_query
query_metrics_by_time_bucket ==
    /\ db_query # None
    /\ "bucket_size" \in DOMAIN db_query
    /\ \/ FailsClosed("query_metrics_by_time_bucket")
       \/ /\ db_conn = "open"
          /\ db_op' = [op |-> "query_metrics_by_time_bucket",
                       ret |-> GroupedByBucket(BucketSelected(metric_rows, db_query),
                                               db_query)]
          /\ UNCHANGED <<events, metric_rows, db_conn, db_query, event_ids, metric_ids,
                         db_with, db_writers>>

\* id BIGINT PRIMARY KEY: whether the table refuses a row with this id
PrimaryKeyMissing(rows, id) == FALSE
PrimaryKeyTaken(rows, id) == \E r \in rows : r.id = id

\* INSERT of a row whose id is in the table
ConstraintViolated == Raise("duckdb.ConstraintException")

\* insert_event(event) by the writer w, first statement: the next id is read
\*   SELECT COALESCE(MAX(id), 0) + 1 FROM events
ReadNextId(w, event) ==
    /\ db_conn = "open"
    /\ db_writers[w].pc = "idle"
    /\ Len(event_ids) + Cardinality({v \in Writers : db_writers[v].pc = "insert"}) < MaxInserts
    /\ db_writers' = [db_writers EXCEPT ![w] =
           [pc |-> "insert", next_id |-> NextId(events), event |-> event,
            overtaken |-> FALSE]]
    /\ UNCHANGED <<events, metric_rows, db_conn, db_op, db_query, event_ids, metric_ids,
                   db_with>>

\* insert_event(event) by the writer w, second statement: the row is
\* inserted with the id read before
\*   INSERT INTO events (id, ...) VALUES (?, ...)
\* A writer between its two statements has been overtaken once another
\* writer's INSERT has added a row.
InsertRow(w) ==
    /\ db_writers[w].pc = "insert"
    /\ LET me == db_writers[w] IN
       IF PrimaryKeyTaken(events, me.next_id)
       THEN /\ db_op' = [op |-> "insert_event", writer |-> w,
                         overtaken |-> me.overtaken, next_id |-> me.next_id,
                         refused |-> TRUE, ret |-> ConstraintViolated]
            /\ db_writers' = [db_writers EXCEPT ![w] = Idle]
            /\ UNCHANGED <<events, event_ids>>
       ELSE /\ events' = events \cup
                    {[id |-> me.next_id, timestamp |-> me.event.timestamp,
                      level |-> me.event.level, source |-> me.event.source]}
            /\ event_ids' = Append(event_ids, me.next_id)
            /\ db_op' = [op |-> "insert_event", writer |-> w,
                         overtaken |-> me.overtaken, next_id |-> me.next_id,
                         refused |-> FALSE, ret |-> me.next_id]
            /\ db_writers' =
                   [v \in Writers |->
                       IF v = w THEN Idle
                       ELSE IF db_writers[v].pc = "insert"
                            THEN [db_writers[v] EXCEPT !.overtaken = TRUE]
                            ELSE Idle]
    /\ UNCHANGED <<metric_rows, db_conn, db_query, metric_ids, db_with>>

(***************************************************************************)
(* PersistentMetricProcessor: a MetricProcessor and a LogStorage           *)
(***************************************************************************)
\* PersistentMetricProcessor._store_metric(result), on the rows and the
\* returned ids of the metrics table
_store_metric(tbl, result) ==
    [rows |-> tbl.rows \cup
                {[id |-> NextId(tbl.rows), metric_name |-> result.metric_name,
                  window_start |-> result.window_start, window_end |-> result.window_end,
                  value |-> result.value,
                  grouped_values |->
                      JsonOrNull(IF result.grouped_values = None THEN NoArg
                                 ELSE Some(result.grouped_values))]},
     ids |-> Append(tbl.ids, NextId(tbl.rows))]

\* for metric_name, result in updated_metrics.items(): self._store_metric(result)
\* The items come in the order the metrics were updated, that of self.metrics
RECURSIVE StoreUpdated(_, _, _)
StoreUpdated(tbl, i, updated) ==
    IF i > Len(metrics) THEN tbl
    ELSE StoreUpdated(IF metrics[i].name \in DOMAIN updated
                      THEN _store_metric(tbl, updated[metrics[i].name]) ELSE tbl,
                      i + 1, updated)

\* The processor, the two tables and the rows written by the calls so far,
\* in the order they were written, each with the number of the event it
\* comes from
Persistent ==
    [proc |-> Processor, events |-> events, event_ids |-> event_ids,
     metric_rows |-> metric_rows, metric_ids |-> metric_ids, log |-> <<>>]

\* self.storage.insert_event(event), for the k-th event of the calls
InsertedEvent(st, event, k) ==
    [st EXCEPT !.events = @ \cup {[id |-> NextId(st.events), timestamp |-> event.timestamp,
                                   level |-> event.level, source |-> "app"]},
               !.event_ids = Append(@, NextId(st.events)),
               !.log = Append(@, [table |-> "events", event |-> k])]

\* The rows written from tbl on are logged as coming from the event k[name]
Logged(st, tbl, from) ==
    [st EXCEPT !.metric_rows = tbl.rows,
               !.metric_ids = tbl.ids,
               !.log = @ \o [i \in 1..(Len(tbl.ids) - Len(st.metric_ids)) |->
                               [table |-> "metrics", event |-> from[i]]]]

\* PersistentMetricProcessor.add_event(event) with auto_store, for the k-th
\* event: the event is stored, then processed, then every updated result is
\* stored; an exception of the processor leaves the event stored and no
\* result
AutoStored(stored, done, k) ==
    IF done.raised # None THEN [stored EXCEPT !.proc = done]
    ELSE Logged([stored EXCEPT !.proc = done],
                StoreUpdated([rows |-> stored.metric_rows, ids |-> stored.metric_ids],
                             1, done.updated),
                [i \in 1..Len(metrics) |-> k])
Processed(stored, event, k) == AutoStored(stored, AddEvent(stored.proc, event), k)
PersistentAddEvent(st, event, k) == Processed(InsertedEvent(st, event, k), event, k)

persistent_add_event(event) ==
    \/ /\ FailsClosed("add_event")
       /\ UNCHANGED mp_vars
    \/ /\ db_conn = "open"
       /\ Len(event_ids) < MaxInserts
       /\ \E st \in {PersistentAddEvent(Persistent, event, 1)} :
             /\ events' = st.events
             /\ event_ids' = st.event_ids
             /\ metric_windows' = st.proc.windows
             /\ metric_results' = st.proc.results
             /\ mp_matched' = st.proc.matched
             /\ mp_returned' = st.proc.returned
             /\ mp_ret' = IF st.proc.raised # None THEN st.proc.raised
                          ELSE [kind |-> "ok", updated |-> st.proc.updated]
             /\ metric_rows' = st.metric_rows
             /\ metric_ids' = st.metric_ids
             /\ db_op' = [op |-> "add_event", ret |-> mp_ret']
       /\ mp_submitted' = Append(mp_submitted, event)
       /\ mp_op' = "add_event"
       /\ UNCHANGED <<metrics, mp_dropped, db_conn, db_query, db_with, db_writers>>

\* self.storage.insert_events(events): insert_event for each, in order
RECURSIVE InsertedEvents(_, _, _)
InsertedEvents(st, evs, k) ==
    IF evs = <<>> THEN st
    ELSE InsertedEvents(InsertedEvent(st, Head(evs), k), Tail(evs), k + 1)

\* all_updated[metric_name] = result, whether or not the name is there: the
\* latest result is kept, a dict keeps its keys in the order they came in
Earliest(all_updated, name, result) ==
    IF name \in DOMAIN all_updated THEN all_updated ELSE (name :> result) @@ all_updated
Latest(all_updated, name, result) == (name :> result) @@ all_updated

\* for metric_name, result in updated.items(): ..., for the k-th event; acc
\* carries all_updated, the order of its keys and, per key, the event its
\* result comes from
RECURSIVE Merged(_, _, _, _)
Merged(acc, i, updated, k) ==
    IF i > Len(metrics) THEN acc
    ELSE IF metrics[i].name \notin DOMAIN updated THEN Merged(acc, i + 1, updated, k)
    ELSE Merged([all_updated |-> Latest(acc.all_updated, metrics[i].name,
                                        updated[metrics[i].name]),
                 order |-> IF metrics[i].name \in DOMAIN acc.all_updated THEN acc.order
                           ELSE Append(acc.order, metrics[i].name),
                 from |-> (metrics[i].name :> k) @@ acc.from],
                i + 1, updated, k)

\* for event in events: updated = self.processor.add_event(event); ...
\* An exception of add_event ends the loop and the call
BatchStep(st, done, acc, k) ==
    [st |-> [st EXCEPT !.proc = done],
     acc |-> IF done.raised # None THEN acc ELSE Merged(acc, 1, done.updated, k),
     taken |-> k]
RECURSIVE BatchLoop(_, _, _)
BatchLoop(b, evs, k) ==
    IF evs = <<>> \/ b.st.proc.raised # None THEN b
    ELSE BatchLoop(BatchStep(b.st, AddEvent(b.st.proc, Head(evs)), b.acc, k),
                   Tail(evs), k + 1)

\* for metric_name, result in all_updated.items(): self._store_metric(result)
RECURSIVE StoreAll(_, _, _)
StoreAll(tbl, order, all_updated) ==
    IF order = <<>> THEN tbl
    ELSE StoreAll(_store_metric(tbl, all_updated[Head(order)]), Tail(order), all_updated)

\* PersistentMetricProcessor.add_events(events) with auto_store
BatchStored(b) ==
    IF b.st.proc.raised # None THEN b
    ELSE [b EXCEPT !.st = Logged(b.st,
                                 StoreAll([rows |-> b.st.metric_rows, ids |-> b.st.metric_ids],
                                          b.acc.order, b.acc.all_updated),
                                 [i \in 1..Len(b.acc.order) |-> b.acc.from[b.acc.order[i]]])]
PersistentAddEvents(st, evs) ==
    BatchStored(BatchLoop([st |-> InsertedEvents(st, evs, 1),
                           acc |-> [all_updated |-> EmptyMap, order |-> <<>>, from |-> EmptyMap],
                           taken |-> 0],
                          evs, 1))

persistent_add_events(evs) ==
    \/ /\ evs # <<>>
       /\ FailsClosed("add_events")
       /\ UNCHANGED mp_vars
    \/ /\ db_conn = "open" \/ evs = <<>>
       /\ Len(event_ids) + Len(evs) <= MaxInserts
       /\ \E b \in {PersistentAddEvents(Persistent, evs)} :
             /\ events' = b.st.events
             /\ event_ids' = b.st.event_ids
             /\ metric_windows' = b.st.proc.windows
             /\ metric_results' = b.st.proc.results
             /\ mp_matched' = b.st.proc.matched
             /\ mp_returned' = b.st.proc.returned
             /\ mp_ret' = IF b.st.proc.raised # None THEN b.st.proc.raised
                          ELSE [kind |-> "ok", updated |-> b.acc.all_updated]
             /\ metric_rows' = b.st.metric_rows
             /\ metric_ids' = b.st.metric_ids
             /\ mp_submitted' = mp_submitted \o SubSeq(evs, 1, b.taken)
             /\ db_op' = [op |-> "add_events", events |-> evs, log |-> b.st.log]
       /\ mp_op' = "add_events"
       /\ UNCHANGED <<metrics, mp_dropped, db_conn, db_query, db_with, db_writers>>

\* self.conn.close(): closing a closed connection does nothing
ConnCloseForgotten(conn) == conn
ConnClose(conn) == "closed"

\* LogStorage.close()
close ==
    /\ db_conn' = ConnClose(db_conn)
    /\ db_op' = [op |-> "close", ret |-> None]
    /\ UNCHANGED <<events, metric_rows, db_query, event_ids, metric_ids, db_with, db_writers>>

\* with storage: ...   LogStorage.__enter__ returns the store
__enter__ ==
    /\ db_with = "outside"
    /\ db_with' = "body"
    /\ db_op' = [op |-> "__enter__", ret |-> None]
    /\ UNCHANGED <<events, metric_rows, db_conn, db_query, event_ids, metric_ids,
                   db_writers>>

\* The ways a with block is left: its last statement completes, a statement
\* raises, or it returns early
ExitPaths == {"completed", "exception", "return"}

\* LogStorage.__exit__(exc_type, exc_val, exc_tb), which the with statement
\* calls on every path out of the block: self.close(); it returns None, so
\* an exception goes on to the caller
__exit__(path) ==
    /\ db_with = "body"
    /\ db_with' = path
    /\ db_conn' = ConnClose(db_conn)
    /\ db_op' = [op |-> "__exit__", ret |-> None]
    /\ UNCHANGED <<events, metric_rows, db_query, event_ids, metric_ids, db_writers>>

(***************************************************************************)
(* LogIngestor._ingest_json                                                *)
(* A stream is a sequence of lines; the generator is followed one line at  *)
(* a time.  The lines are sample texts, and json.loads, str.strip and the  *)
(* LogEvent constructor are given by what they do on them.                 *)
(***************************************************************************)

\* Lines without content
BlankLines == {"", "  "}
\* JSON objects that describe an event
EventLines == {"{\"message\": \"a\"}", "{\"level\": \"error\", \"message\": \"b\"}", "{}"}
\* Lines that are not JSON, JSON that is not an object, and objects whose
\* fields are not those of an event
MalformedLines ==
    {"{\"invalid\": json}", "42", "{\"level\": \"BAD\", \"message\": \"c\"}",
     "{\"metadata\": \"x\", \"k\": 1}"}
Lines == BlankLines \cup EventLines \cup MalformedLines

\* JSON values
JStr(x) == [kind |-> "str", s |-> x]
JInt(n) == [kind |-> "int", n |-> n]
JDict(f) == [kind |-> "dict", dict |-> f]

\* line.strip()
strip(line) == IF line = "  " THEN "" ELSE IF line = " a " THEN "a" ELSE line

\* json.loads(line)
json_loads(line) ==
    CASE line = "{\"message\": \"a\"}" -> JDict("message" :> JStr("a"))
      [] line = "{\"level\": \"error\", \"message\": \"b\"}" ->
            JDict(("level" :> JStr("error")) @@ ("message" :> JStr("b")))
      [] line = "{}" -> JDict(EmptyMap)
      [] line = "42" -> JInt(42)
      [] line = "{\"level\": \"BAD\", \"message\": \"c\"}" ->
            JDict(("level" :> JStr("BAD")) @@ ("message" :> JStr("c")))
      [] line = "{\"metadata\": \"x\", \"k\": 1}" ->
            JDict(("metadata" :> JStr("x")) @@ ("k" :> JInt(1)))
      [] OTHER -> Raise("JSONDecodeError")

\* str(data), data a dictionary
str(data) ==
    IF DOMAIN data.dict = {} THEN "{}" ELSE "{'metadata': 'x', 'k': 1}"

\* data.get(key, default)
Get(data, key, default) == IF key \in DOMAIN data.dict THEN data.dict[key] ELSE default

\* str.upper() on the sample levels
upper(level) ==
    CASE level = "error" -> "ERROR"
      [] level = "info" -> "INFO"
      [] level = "Fatal" -> "FATAL"
      [] level = "warn" -> "WARN"
      [] OTHER -> level

\* A datetime, and the metadata an event keeps: {} for None
Datetime(t) == [kind |-> "datetime", t |-> t]
MetadataKept(metadata) == metadata
MetadataOrEmpty(metadata) == IF metadata.kind = "None" THEN JDict(EmptyMap) ELSE metadata

\* LogEvent(timestamp, level, source, message, metadata).__post_init__: the
\* event, or the ValueError of the first field refused
VALID_LEVELS == {"DEBUG", "INFO", "WARNING", "ERROR", "CRITICAL", "TRACE", "FATAL"}
LogEvent(timestamp, level, source, message, metadata) ==
    IF timestamp.kind # "datetime" THEN Raise("ValueError")
    ELSE IF level.kind # "str" THEN Raise("ValueError")
    ELSE IF upper(level.s) \notin VALID_LEVELS THEN Raise("ValueError")
    ELSE IF source.kind # "str" THEN Raise("ValueError")
    ELSE IF strip(source.s) = "" THEN Raise("ValueError")
    ELSE IF message.kind # "str" THEN Raise("ValueError")
    ELSE IF strip(message.s) = "" THEN Raise("ValueError")
    ELSE IF metadata.kind \notin {"None", "dict"} THEN Raise("ValueError")
    ELSE [kind |-> "LogEvent", timestamp |-> timestamp.t, level |-> upper(level.s),
          source |-> source.s, message |-> message.s,
          metadata |-> MetadataOrEmpty(metadata)]

\* The arguments LogEvent is constructed with; metadata left out is
\* field(default_factory=dict)
EventArgs ==
    [timestamp : {Datetime(100), JStr("2024-01-01T12:00:00")},
     level     : {JStr("INFO"), JStr("info"), JStr("Fatal"), JStr("error"), JStr("TRACE"),
                  JStr("warn"), JStr(""), JStr(" INFO"), JInt(5), None},
     source    : {JStr("app"), JStr(" a "), JStr(""), JStr("  "), None},
     message   : {JStr("a"), JStr(" a "), JStr(""), JStr("  "), JInt(1)},
     metadata  : {NoArg, None, JDict(EmptyMap), JDict("k" :> JInt(1)), JStr("x")}]

InitEvent == new_event \in {[args |-> a, ret |-> None] : a \in EventArgs}

\* LogEvent(timestamp, level, source, message[, metadata])
NewLogEvent ==
    /\ new_event.ret = None
    /\ new_event' =
           [new_event EXCEPT !.ret =
               LogEvent(new_event.args.timestamp, new_event.args.level,
                        new_event.args.source, new_event.args.message,
                        IF new_event.args.metadata = NoArg THEN JDict(EmptyMap)
                        ELSE new_event.args.metadata)]

known_fields == {"timestamp", "level", "source", "message", "metadata"}

\* for key, value in data.items(): if key not in known_fields:
\*     metadata[key] = value
\* A metadata that is a string does not support item assignment.
WithAdditional(metadata, data) ==
    IF DOMAIN data.dict \subseteq known_fields THEN metadata
    ELSE IF metadata.kind # "dict" THEN Raise("TypeError")
    ELSE JDict([k \in DOMAIN metadata.dict \cup (DOMAIN data.dict \ known_fields) |->
                  IF k \in DOMAIN data.dict \ known_fields THEN data.dict[k]
                  ELSE metadata.dict[k]])

\* The body of the try statement, data being what json.loads returned: the
\* event it yields or the exception it raises.  data.get on a value that
\* is not a dictionary raises AttributeError.
TryBody(data, default_level, default_source) ==
    IF data.kind = "raise" THEN data
    ELSE IF data.kind # "dict" THEN Raise("AttributeError")
    ELSE LET metadata == WithAdditional(Get(data, "metadata", JDict(EmptyMap)), data) IN
         IF metadata.kind = "raise" THEN metadata
         ELSE LogEvent(Datetime(200),
                       Get(data, "level", JStr(default_level)),
                       Get(data, "source", JStr(default_source)),
                       Get(data, "message", JStr(str(data))),
                       metadata)

\* except json.JSONDecodeError / except (ValueError, KeyError): what is
\* done with an exception of the try body; any other exception propagates
Handled(raised, skip_invalid) ==
    IF raised.error \in {"JSONDecodeError", "ValueError", "KeyError"}
    THEN (IF ~skip_invalid THEN Raise("ValueError") ELSE [kind |-> "continue"])
    ELSE raised

\* One iteration of the for loop of _ingest_json
IngestLine(line, skip_invalid) ==
    IF strip(line) = "" THEN [kind |-> "continue"]
    ELSE LET tried == TryBody(json_loads(strip(line)), "INFO", "unknown") IN
         IF tried.kind = "raise" THEN Handled(tried, skip_invalid) ELSE tried

\* The streams ingested
RECURSIVE Streams(_)
Streams(n) ==
    IF n = 0 THEN {<<>>}
    ELSE Streams(n - 1) \cup {Append(s, l) : s \in Streams(n - 1), l \in Lines}

\* LogIngestor(skip_invalid=...) and the generator _ingest_json(stream),
\* not yet advanced
InitIngestor ==
    /\ ing_skip_invalid \in BOOLEAN
    /\ ing_stream \in Streams(MaxLines)
    /\ ing_line_num = 0
    /\ ing_yielded = <<>>
    /\ ing_raised = None

\* _ingest_json reads the next line: it goes on to the line after, yields
\* an event, or ends with an exception
ReadLine ==
    /\ ing_raised = None
    /\ ing_line_num < Len(ing_stream)
    /\ ing_line_num' = ing_line_num + 1
    /\ \E done \in {IngestLine(ing_stream[ing_line_num + 1], ing_skip_invalid)} :
          /\ ing_yielded' = IF done.kind = "LogEvent"
                            THEN Append(ing_yielded,
                                        [line_num |-> ing_line_num + 1, event |-> done])
                            ELSE ing_yielded
          /\ ing_raised' = IF done.kind = "raise" THEN done ELSE None
    /\ UNCHANGED <<ing_skip_invalid, ing_stream>>

(***************************************************************************)
(* The ingest command of the CLI                                           *)
(* The command is followed statement by statement: the store is opened,    *)
(* the file is read line by line and each event inserted, the metrics of   *)
(* the configuration are computed over a second reading of the file, the   *)
(* store is closed.  An exception anywhere in between is caught by         *)
(* "except Exception", which prints it and exits with status 1.            *)
(***************************************************************************)
\* The metrics of the configuration: none, a count, an average that has no
\* value_extractor
CliConfigs ==
    {<<>>, <<Plain("first", "all", "count", 1)>>, <<Plain("first", "error", "average", 1)>>}

\* The event of the file as the processor sees it
Timed(event) == [timestamp |-> event.timestamp, level |-> event.level]

InitCli ==
    /\ cli_pc = "start"
    /\ cli_metric_pass = 0
    /\ cli_status = None
    /\ metrics \in CliConfigs
    /\ metric_windows = [n \in Names |-> <<>>]
    /\ metric_results = [n \in Names |-> None]
    /\ mp_op = "init"
    /\ mp_ret = None
    /\ mp_submitted = <<>>
    /\ mp_matched = [n \in Names |-> <<>>]
    /\ mp_returned = [n \in Names |-> None]
    /\ mp_dropped = FALSE
    /\ ing_skip_invalid = TRUE
    /\ ing_stream \in Streams(Min(MaxLines, MaxInserts))
    /\ ing_line_num = 0
    /\ ing_yielded = <<>>
    /\ ing_raised = None
    /\ events = {}
    /\ metric_rows = {}
    /\ db_conn = "not opened"
    /\ db_op = [op |-> "none"]
    /\ db_query = None
    /\ event_ids = <<>>
    /\ metric_ids = <<>>
    /\ db_with = "outside"
    /\ db_writers = [w \in Writers |-> Idle]

\* except Exception as e: console.print(...); raise typer.Exit(1)
ExitOnException ==
    /\ cli_pc' = "exited"
    /\ cli_status' = 1

\* storage = LogStorage(db_path); ingestor = LogIngestor(default_source=...)
CliOpen ==
    /\ cli_pc = "start"
    /\ cli_pc' = "ingesting"
    /\ db_conn' = "open"
    /\ db_op' = [op |-> "init"]
    /\ UNCHANGED <<events, metric_rows, db_query, event_ids, metric_ids, db_with,
                   db_writers, cli_metric_pass, cli_status, ing_vars, mp_vars>>

\* One turn of "for event in ingestor.ingest_file(...)": the generator reads
\* a line; an event it yields is inserted, an exception it raises ends the
\* command
CliIngestLine ==
    /\ cli_pc = "ingesting"
    /\ ReadLine
    /\ IF ing_raised' # None
       THEN ExitOnException /\ UNCHANGED db_vars
       ELSE /\ IF Len(ing_yielded') > Len(ing_yielded)
               THEN insert_event(Last(ing_yielded').event)
               ELSE UNCHANGED db_vars
            /\ UNCHANGED <<cli_pc, cli_status>>
    /\ UNCHANGED <<cli_metric_pass, mp_vars>>

\* The file is read: "if config_obj and config_obj.metrics" chooses between
\* the second reading and storage.close()
CliIngested ==
    /\ cli_pc = "ingesting"
    /\ ing_raised = None /\ ing_line_num = Len(ing_stream)
    /\ cli_pc' = IF metrics # <<>> THEN "computing" ELSE "closing"
    /\ UNCHANGED <<cli_metric_pass, cli_status, ing_vars, mp_vars, db_vars>>

\* One turn of the second loop: the file yields the same events again;
\* processor.add_event(event), then storage.insert_metric for every result
CliComputeMetrics ==
    /\ cli_pc = "computing"
    /\ cli_metric_pass < Len(ing_yielded)
    /\ add_event(Timed(ing_yielded[cli_metric_pass + 1].event))
    /\ IF mp_ret'.kind = "raise"
       THEN ExitOnException /\ UNCHANGED <<db_vars, cli_metric_pass>>
       ELSE /\ \E tbl \in {StoreUpdated([rows |-> metric_rows, ids |-> metric_ids],
                                        1, mp_ret'.updated)} :
                 /\ metric_rows' = tbl.rows
                 /\ metric_ids' = tbl.ids
            /\ db_op' = [op |-> "insert_metric", ret |-> None]
            /\ cli_metric_pass' = cli_metric_pass + 1
            /\ UNCHANGED <<events, db_conn, db_query, event_ids, db_with, db_writers,
                           cli_pc, cli_status>>
    /\ UNCHANGED ing_vars

\* The second loop is over
CliComputed ==
    /\ cli_pc = "computing"
    /\ cli_metric_pass = Len(ing_yielded)
    /\ cli_pc' = "closing"
    /\ UNCHANGED <<cli_metric_pass, cli_status, ing_vars, mp_vars, db_vars>>

\* storage.close(), and the command ends
CliClose ==
    /\ cli_pc = "closing"
    /\ close
    /\ cli_pc' = "exited"
    /\ cli_status' = 0
    /\ UNCHANGED <<cli_metric_pass, ing_vars, mp_vars>>

NextCli ==
    \/ CliOpen /\ UNCHANGED <<det_vars, sev_vars, mc_vars, rw_vars, mm_vars, ev_vars>>
    \/ CliIngestLine /\ UNCHANGED <<det_vars, sev_vars, mc_vars, rw_vars, mm_vars, ev_vars>>
    \/ CliIngested /\ UNCHANGED <<det_vars, sev_vars, mc_vars, rw_vars, mm_vars, ev_vars>>
    \/ CliComputeMetrics /\ UNCHANGED <<det_vars, sev_vars, mc_vars, rw_vars, mm_vars, ev_vars>>
    \/ CliComputed /\ UNCHANGED <<det_vars, sev_vars, mc_vars, rw_vars, mm_vars, ev_vars>>
    \/ CliClose /\ UNCHANGED <<det_vars, sev_vars, mc_vars, rw_vars, mm_vars, ev_vars>>

(***************************************************************************)
(* _calculate_severity on its own                                          *)
(***************************************************************************)
\* The floats k/4, and the floats next to them
AbsZ == {[sq |-> Rat(k * k, 16), err |-> e] : k \in 0..MaxAbsZ, e \in Rounding}
Unset == [z |-> [sq |-> Rat(0, 1), err |-> 0], severity |-> "unset"]

InitSeverity ==
    /\ sev_a = Unset
    /\ sev_b = Unset

EvalSeverityA ==
    /\ \E z \in AbsZ : sev_a' = [z |-> z, severity |-> _calculate_severity(z)]
    /\ UNCHANGED sev_b

EvalSeverityB ==
    /\ \E z \in AbsZ : sev_b' = [z |-> z, severity |-> _calculate_severity(z)]
    /\ UNCHANGED sev_a

(***************************************************************************)
(* Specifications: one per component; the other components stay idle       *)
(***************************************************************************)
vars == <<det_vars, sev_vars, mp_vars, mc_vars, rw_vars, db_vars, mm_vars, ing_vars,
          ev_vars, cli_vars>>

\* A detector built with the constructor's defaults, never used
IdleDetector ==
    /\ window_size = 20
    /\ threshold = Rat(2, 1)
    /\ min_samples = 5
    /\ values = <<>>
    /\ timestamps = <<>>
    /\ det_op = "init"
    /\ det_ret = None
    /\ det_submitted = <<>>
    /\ det_round = 0
    /\ det_dropped = FALSE

\* A processor without metrics, never used
IdleProcessor ==
    /\ metrics = <<>>
    /\ metric_windows = [n \in Names |-> <<>>]
    /\ metric_results = [n \in Names |-> None]
    /\ mp_op = "init"
    /\ mp_ret = None
    /\ mp_submitted = <<>>
    /\ mp_matched = [n \in Names |-> <<>>]
    /\ mp_returned = [n \in Names |-> None]
    /\ mp_dropped = FALSE

NextDetector ==
    \/ \E v \in Vals, t \in {NoArg} \cup {Some(s) : s \in Stamps} :
          add_value(v, t) /\ UNCHANGED <<sev_vars, mp_vars, mc_vars, rw_vars, db_vars, mm_vars, ing_vars, ev_vars, cli_vars>>
    \/ reset /\ UNCHANGED <<sev_vars, mp_vars, mc_vars, rw_vars, db_vars, mm_vars, ing_vars, ev_vars, cli_vars>>

NextSeverity ==
    \/ EvalSeverityA /\ UNCHANGED <<det_vars, mp_vars, mc_vars, rw_vars, db_vars, mm_vars, ing_vars, ev_vars, cli_vars>>
    \/ EvalSeverityB /\ UNCHANGED <<det_vars, mp_vars, mc_vars, rw_vars, db_vars, mm_vars, ing_vars, ev_vars, cli_vars>>

NextProcessor ==
    \/ \E e \in LogEvents : add_event(e) /\ UNCHANGED <<det_vars, sev_vars, mc_vars, rw_vars, db_vars, mm_vars, ing_vars, ev_vars, cli_vars>>
    \/ clear /\ UNCHANGED <<det_vars, sev_vars, mc_vars, rw_vars, db_vars, mm_vars, ing_vars, ev_vars, cli_vars>>

\* The events process_events is run with, and sequences of at most n of them
BatchEvents == [timestamp : {0, 2}, level : Levels]
Batches(n) == UNION {[1..k -> BatchEvents] : k \in 0..n}

NextBatch ==
    \/ \E e \in BatchEvents : add_event(e) /\ UNCHANGED <<det_vars, sev_vars, mc_vars, rw_vars, db_vars, mm_vars, ing_vars, ev_vars, cli_vars>>
    \/ \E evs \in Batches(Min(MaxBatch, MaxEvents - Len(mp_submitted))) :
          process_events(evs) /\ UNCHANGED <<det_vars, sev_vars, mc_vars, rw_vars, db_vars, mm_vars, ing_vars, ev_vars, cli_vars>>
    \/ clear /\ UNCHANGED <<det_vars, sev_vars, mc_vars, rw_vars, db_vars, mm_vars, ing_vars, ev_vars, cli_vars>>

NextMetric == NewMetric /\ UNCHANGED <<det_vars, sev_vars, mp_vars, rw_vars, db_vars, mm_vars, ing_vars, ev_vars, cli_vars>>

NextRolling ==
    \/ \E e \in RollEvents :
          _add_event_sliding(e) /\ UNCHANGED <<det_vars, sev_vars, mp_vars, mc_vars, db_vars, mm_vars, ing_vars, ev_vars, cli_vars>>
    \/ \E e \in RollEvents :
          _add_event_tumbling(e) /\ UNCHANGED <<det_vars, sev_vars, mp_vars, mc_vars, db_vars, mm_vars, ing_vars, ev_vars, cli_vars>>
    \/ StartNextWindow /\ UNCHANGED <<det_vars, sev_vars, mp_vars, mc_vars, db_vars, mm_vars, ing_vars, ev_vars, cli_vars>>
    \/ AddToNewWindow /\ UNCHANGED <<det_vars, sev_vars, mp_vars, mc_vars, db_vars, mm_vars, ing_vars, ev_vars, cli_vars>>

\* A running add_event call is not abandoned: the interpreter goes on with
\* the statements of the call
RollingCallRuns == WF_rw_vars(StartNextWindow) /\ WF_rw_vars(AddToNewWindow)

\* The events and metric results the store is written with when only
\* their times matter
PlainEvent(t) == [timestamp |-> t, level |-> "ERROR", source |-> "app"]

NextStore ==
    \/ \E t \in StoreTimes :
          insert_event(PlainEvent(t)) /\ UNCHANGED <<det_vars, sev_vars, mp_vars, mc_vars, rw_vars, mm_vars, ing_vars, ev_vars, cli_vars>>
    \/ \E t \in StoreTimes :
          insert_metric(MetricName, t, t, Num(1, 1), NoArg)
              /\ UNCHANGED <<det_vars, sev_vars, mp_vars, mc_vars, rw_vars, mm_vars, ing_vars, ev_vars, cli_vars>>
    \/ \E t \in StoreTimes : delete_old_events(t) /\ UNCHANGED <<det_vars, sev_vars, mp_vars, mc_vars, rw_vars, mm_vars, ing_vars, ev_vars, cli_vars>>
    \/ \E t \in StoreTimes : delete_old_metrics(t) /\ UNCHANGED <<det_vars, sev_vars, mp_vars, mc_vars, rw_vars, mm_vars, ing_vars, ev_vars, cli_vars>>

\* A program that holds one of the two objects, a detector or a processor
\* with metrics: the objects share no state
NextResets ==
    \/ metrics = <<>> /\ NextDetector
    \/ metrics # <<>> /\ NextProcessor

\* A processor built from a list in which two metrics share a name
InitDuplicateNames ==
    /\ metrics \in DuplicateNameConfigs
    /\ metric_windows = [n \in Names |-> <<>>]
    /\ metric_results = [n \in Names |-> None]
    /\ mp_op = "init"
    /\ mp_ret = None
    /\ mp_submitted = <<>>
    /\ mp_matched = [n \in Names |-> <<>>]
    /\ mp_returned = [n \in Names |-> None]
    /\ mp_dropped = FALSE

\* A processor process_events is called on
InitBatch ==
    /\ metrics \in BatchConfigs
    /\ metric_windows = [n \in Names |-> <<>>]
    /\ metric_results = [n \in Names |-> None]
    /\ mp_op = "init"
    /\ mp_ret = None
    /\ mp_submitted = <<>>
    /\ mp_matched = [n \in Names |-> <<>>]
    /\ mp_returned = [n \in Names |-> None]
    /\ mp_dropped = FALSE

\* The events stored and the queries made where the filters are looked at
StoredEvents == [timestamp : StoreTimes, level : Levels, source : Sources]
QueryArgs ==
    [start_time : {NoArg} \cup {Some(t) : t \in StoreTimes},
     end_time   : {NoArg} \cup {Some(t) : t \in StoreTimes},
     level      : {NoArg, Some(""), Some("ERROR")},
     source     : {NoArg, Some("app")},
     limit      : {NoArg, Some(1)}]

\* An empty store, and the arguments of the query_events calls to come
InitQueryEvents ==
    /\ events = {}
    /\ metric_rows = {}
    /\ db_conn = "open"
    /\ db_op = [op |-> "init"]
    /\ db_query \in QueryArgs
    /\ event_ids = <<>>
    /\ metric_ids = <<>>
    /\ db_with = "outside"
    /\ db_writers = [w \in Writers |-> Idle]

NextQueryEvents ==
    \/ \E e \in StoredEvents :
          insert_event(e) /\ UNCHANGED <<det_vars, sev_vars, mp_vars, mc_vars, rw_vars, mm_vars, ing_vars, ev_vars, cli_vars>>
    \/ query_events /\ UNCHANGED <<det_vars, sev_vars, mp_vars, mc_vars, rw_vars, mm_vars, ing_vars, ev_vars, cli_vars>>

\* The queries made where the limit is looked at: the limit absent, 0, and
\* up to MaxLimit
MaxLimit == 2
LimitQueries ==
    [metric_name : {NoArg, Some("first")},
     start_time  : {NoArg},
     end_time    : {NoArg},
     level       : {NoArg, Some("ERROR")},
     source      : {NoArg},
     limit       : {NoArg} \cup {Some(k) : k \in 0..MaxLimit}]

\* An empty store, and the arguments of the queries to come
InitLimits ==
    /\ events = {}
    /\ metric_rows = {}
    /\ db_conn = "open"
    /\ db_op = [op |-> "init"]
    /\ db_query \in LimitQueries
    /\ event_ids = <<>>
    /\ metric_ids = <<>>
    /\ db_with = "outside"
    /\ db_writers = [w \in Writers |-> Idle]

NextLimits ==
    \/ \E t \in StoreTimes, level \in Levels :
          insert_event([timestamp |-> t, level |-> level, source |-> "app"])
              /\ UNCHANGED <<det_vars, sev_vars, mp_vars, mc_vars, rw_vars, mm_vars, ing_vars, ev_vars, cli_vars>>
    \/ \E t \in StoreTimes, metric_name \in Names :
          insert_metric(metric_name, t, t + 1, Num(1, 1), NoArg)
              /\ UNCHANGED <<det_vars, sev_vars, mp_vars, mc_vars, rw_vars, mm_vars, ing_vars, ev_vars, cli_vars>>
    \/ query_events /\ UNCHANGED <<det_vars, sev_vars, mp_vars, mc_vars, rw_vars, mm_vars, ing_vars, ev_vars, cli_vars>>
    \/ query_metrics /\ UNCHANGED <<det_vars, sev_vars, mp_vars, mc_vars, rw_vars, mm_vars, ing_vars, ev_vars, cli_vars>>

\* The times of the bucketed rows: two seconds in each of two minutes
BucketTimes == {0, 1, 60, 61}

\* The arguments of query_metrics_by_time_bucket
BucketQueries ==
    [metric_name : {MetricName},
     bucket_size : TimeBucket,
     start_time  : {NoArg, Some(1)},
     end_time    : {NoArg, Some(60)},
     aggregation : {"AVG"}]
    \cup
    [metric_name : {MetricName},
     bucket_size : {"minute"},
     start_time  : {NoArg},
     end_time    : {NoArg},
     aggregation : {"SUM", "COUNT"}]

\* The metrics table of a database file written by an earlier run
\* (CREATE TABLE IF NOT EXISTS keeps its rows): one row in each minute
StoredBefore ==
    {[id |-> 1, metric_name |-> MetricName, window_start |-> 0, window_end |-> 0,
      value |-> Num(2, 1), grouped_values |-> None],
     [id |-> 2, metric_name |-> MetricName, window_start |-> 60, window_end |-> 60,
      value |-> Num(2, 1), grouped_values |-> None]}

\* A store opened on a new file or on that file, and the arguments of the
\* bucket queries to come
InitBuckets ==
    /\ events = {}
    /\ metric_rows \in {{}, StoredBefore}
    /\ db_conn = "open"
    /\ db_op = [op |-> "init"]
    /\ db_query \in BucketQueries
    /\ event_ids = <<>>
    /\ metric_ids = <<>>
    /\ db_with = "outside"
    /\ db_writers = [w \in Writers |-> Idle]

\* Rows of two metrics, with a value or with a grouped map, and the query
NextBuckets ==
    \/ \E metric_name \in {MetricName, "latency"}, t \in BucketTimes :
          insert_metric(metric_name, t, t, Num(2, 1), NoArg)
              /\ UNCHANGED <<det_vars, sev_vars, mp_vars, mc_vars, rw_vars, mm_vars, ing_vars, ev_vars, cli_vars>>
    \/ \E t \in BucketTimes :
          insert_metric(MetricName, t, t, None, Some("ERROR" :> Num(1, 1)))
              /\ UNCHANGED <<det_vars, sev_vars, mp_vars, mc_vars, rw_vars, mm_vars, ing_vars, ev_vars, cli_vars>>
    \/ query_metrics_by_time_bucket
          /\ UNCHANGED <<det_vars, sev_vars, mp_vars, mc_vars, rw_vars, mm_vars, ing_vars, ev_vars, cli_vars>>

\* The processors whose results are persisted: plain and grouped metrics,
\* and one with the negative window the constructor accepts
PersistConfigs ==
    UNION {
      { <<Plain("first", "error", "count", w), Grouped("second", "all", "count", w)>>,
        <<Extracting("first", "all", "average", w)>>
      } : w \in Windows }
    \cup { <<Extracting("first", "all", "average", -1)>>,
           <<Grouped("first", "all", "count", -1)>> }

InitPersistent ==
    /\ metrics \in PersistConfigs
    /\ metric_windows = [n \in Names |-> <<>>]
    /\ metric_results = [n \in Names |-> None]
    /\ mp_op = "init"
    /\ mp_ret = None
    /\ mp_submitted = <<>>
    /\ mp_matched = [n \in Names |-> <<>>]
    /\ mp_returned = [n \in Names |-> None]
    /\ mp_dropped = FALSE

\* The value and grouped_values arguments insert_metric is called with
MetricValues == {None, Num(1, 1)}
GroupedArgs == {NoArg, Some(EmptyMap), Some("ERROR" :> Num(1, 1))}

NextMetricRows ==
    \/ \E t \in StoreTimes, value \in MetricValues, grouped_values \in GroupedArgs :
          insert_metric(MetricName, t, t, value, grouped_values)
              /\ UNCHANGED <<det_vars, sev_vars, mp_vars, mc_vars, rw_vars, mm_vars, ing_vars, ev_vars, cli_vars>>
    \/ \E e \in LogEvents :
          persistent_add_event(e) /\ UNCHANGED <<det_vars, sev_vars, mc_vars, rw_vars, mm_vars, ing_vars, ev_vars, cli_vars>>

\* The processors add_events is run with: those above, and one whose second
\* metric raises on an ERROR event for want of a value_extractor
AddEventsConfigs ==
    PersistConfigs
        \cup {<<Plain("first", "all", "count", 1), Plain("second", "error", "average", 1)>>}
InitAddEvents ==
    /\ metrics \in AddEventsConfigs
    /\ metric_windows = [n \in Names |-> <<>>]
    /\ metric_results = [n \in Names |-> None]
    /\ mp_op = "init"
    /\ mp_ret = None
    /\ mp_submitted = <<>>
    /\ mp_matched = [n \in Names |-> <<>>]
    /\ mp_returned = [n \in Names |-> None]
    /\ mp_dropped = FALSE

NextAddEvents ==
    \/ \E e \in BatchEvents :
          persistent_add_event(e) /\ UNCHANGED <<det_vars, sev_vars, mc_vars, rw_vars, mm_vars, ing_vars, ev_vars, cli_vars>>
    \/ \E evs \in Batches(Min(MaxBatch, MaxInserts - Len(event_ids))) :
          persistent_add_events(evs) /\ UNCHANGED <<det_vars, sev_vars, mc_vars, rw_vars, mm_vars, ing_vars, ev_vars, cli_vars>>

\* A store and the one query, without filters, made on it
InitLifecycle ==
    /\ events = {}
    /\ metric_rows = {}
    /\ db_conn = "open"
    /\ db_op = [op |-> "init"]
    /\ db_query = [start_time |-> NoArg, end_time |-> NoArg, level |-> NoArg,
                   source |-> NoArg, limit |-> NoArg]
    /\ event_ids = <<>>
    /\ metric_ids = <<>>
    /\ db_with = "outside"
    /\ db_writers = [w \in Writers |-> Idle]

NextLifecycle ==
    \/ \E t \in StoreTimes :
          insert_event(PlainEvent(t)) /\ UNCHANGED <<det_vars, sev_vars, mp_vars, mc_vars, rw_vars, mm_vars, ing_vars, ev_vars, cli_vars>>
    \/ insert_metric(MetricName, 0, 0, Num(1, 1), NoArg)
          /\ UNCHANGED <<det_vars, sev_vars, mp_vars, mc_vars, rw_vars, mm_vars, ing_vars, ev_vars, cli_vars>>
    \/ query_events /\ UNCHANGED <<det_vars, sev_vars, mp_vars, mc_vars, rw_vars, mm_vars, ing_vars, ev_vars, cli_vars>>
    \/ \E t \in StoreTimes : delete_old_events(t) /\ UNCHANGED <<det_vars, sev_vars, mp_vars, mc_vars, rw_vars, mm_vars, ing_vars, ev_vars, cli_vars>>
    \/ delete_old_metrics(1) /\ UNCHANGED <<det_vars, sev_vars, mp_vars, mc_vars, rw_vars, mm_vars, ing_vars, ev_vars, cli_vars>>
    \/ close /\ UNCHANGED <<det_vars, sev_vars, mp_vars, mc_vars, rw_vars, mm_vars, ing_vars, ev_vars, cli_vars>>
    \/ __enter__ /\ UNCHANGED <<det_vars, sev_vars, mp_vars, mc_vars, rw_vars, mm_vars, ing_vars, ev_vars, cli_vars>>
    \/ \E path \in ExitPaths :
          __exit__(path) /\ UNCHANGED <<det_vars, sev_vars, mp_vars, mc_vars, rw_vars, mm_vars, ing_vars, ev_vars, cli_vars>>

\* Two callers of insert_event on one store, their statements interleaved
NextWriters ==
    \/ \E w \in Writers, t \in StoreTimes :
          ReadNextId(w, PlainEvent(t)) /\ UNCHANGED <<det_vars, sev_vars, mp_vars, mc_vars, rw_vars, mm_vars, ing_vars, ev_vars, cli_vars>>
    \/ \E w \in Writers :
          InsertRow(w) /\ UNCHANGED <<det_vars, sev_vars, mp_vars, mc_vars, rw_vars, mm_vars, ing_vars, ev_vars, cli_vars>>
    \/ \E t \in StoreTimes :
          delete_old_events(t) /\ UNCHANGED <<det_vars, sev_vars, mp_vars, mc_vars, rw_vars, mm_vars, ing_vars, ev_vars, cli_vars>>

\* The dictionaries get_all_anomalies is called with: their items, the
\* names being distinct
MetricValueDicts ==
    {<<>>}
    \cup {<<<<n, v>>>> : n \in MetricNames, v \in Vals}
    \cup {<<<<n, v>>, <<CHOOSE m \in MetricNames : m # n, v - 1>>>> :
             n \in MetricNames, v \in {0, MaxVal}}

NextMulti ==
    \/ \E n \in MetricNames, v \in Vals :
          add_metric_value(n, v, NoArg)
              /\ UNCHANGED <<det_vars, sev_vars, mp_vars, mc_vars, rw_vars, db_vars, ing_vars, ev_vars, cli_vars>>
    \/ \E metric_values \in MetricValueDicts :
          get_all_anomalies(metric_values, NoArg)
              /\ UNCHANGED <<det_vars, sev_vars, mp_vars, mc_vars, rw_vars, db_vars, ing_vars, ev_vars, cli_vars>>

NextIngestor ==
    ReadLine /\ UNCHANGED <<det_vars, sev_vars, mp_vars, mc_vars, rw_vars, db_vars, mm_vars, ev_vars, cli_vars>>

NextLogEvent ==
    NewLogEvent /\ UNCHANGED <<det_vars, sev_vars, mp_vars, mc_vars, rw_vars, db_vars, mm_vars,
                               ing_vars, cli_vars>>

\* A multi-metric detector never used
IdleMulti == InitMulti

\* No LogEvent constructed, and no command run
IdleEvent == new_event = [args |-> None, ret |-> None]
IdleCli ==
    /\ cli_pc = "not run"
    /\ cli_metric_pass = 0
    /\ cli_status = None

\* MultiMetricAnomalyDetector(window_size, threshold, min_samples): the
\* shared parameters; no AnomalyDetector of its own is used
InitShared ==
    /\ window_size \in {1, 2}
    /\ threshold \in {Rat(0, 1), Rat(1, 1)}
    /\ min_samples \in {1, 2}
    /\ values = <<>>
    /\ timestamps = <<>>
    /\ det_op = "init"
    /\ det_ret = None
    /\ det_submitted = <<>>
    /\ det_round = 0
    /\ det_dropped = FALSE

\* An ingestor that was given an empty stream
IdleIngestor ==
    /\ ing_skip_invalid = TRUE
    /\ ing_stream = <<>>
    /\ ing_line_num = 0
    /\ ing_yielded = <<>>
    /\ ing_raised = None

\* A sliding processor with a window of one second, never used
IdleRolling ==
    /\ rw_window_size = 1
    /\ rw_window_type = "sliding"
    /\ rw_events = <<>>
    /\ rw_current_metrics = None
    /\ rw_current_window_start = NoArg
    /\ rw_current_window_end = NoArg
    /\ rw_completed_windows = <<>>
    /\ rw_pc = "idle"
    /\ rw_event = None
    /\ rw_completed_window = None
    /\ rw_ret = None
    /\ rw_calls = 0

\* Init of each specification
IdleStore == InitStore
DetectorInit == InitDetector /\ InitSeverity /\ IdleEvent /\ IdleCli /\ IdleMulti /\ IdleIngestor /\ IdleProcessor /\ IdleMetric /\ IdleRolling /\ IdleStore
SeverityInit == IdleDetector /\ InitSeverity /\ IdleEvent /\ IdleCli /\ IdleMulti /\ IdleIngestor /\ IdleProcessor /\ IdleMetric /\ IdleRolling /\ IdleStore
ProcessorInit == IdleDetector /\ InitSeverity /\ IdleEvent /\ IdleCli /\ IdleMulti /\ IdleIngestor /\ InitProcessor /\ IdleMetric /\ IdleRolling /\ IdleStore
DuplicateNamesInit ==
    IdleDetector /\ InitSeverity /\ IdleEvent /\ IdleCli /\ IdleMulti /\ IdleIngestor /\ InitDuplicateNames /\ IdleMetric /\ IdleRolling /\ IdleStore
BatchInit == IdleDetector /\ InitSeverity /\ IdleEvent /\ IdleCli /\ IdleMulti /\ IdleIngestor /\ InitBatch /\ IdleMetric /\ IdleRolling /\ IdleStore
MetricInit == IdleDetector /\ InitSeverity /\ IdleEvent /\ IdleCli /\ IdleMulti /\ IdleIngestor /\ IdleProcessor /\ InitMetric /\ IdleRolling /\ IdleStore
RollingInit ==
    IdleDetector /\ InitSeverity /\ IdleEvent /\ IdleCli /\ IdleMulti /\ IdleIngestor /\ IdleProcessor /\ IdleMetric /\ InitRolling /\ IdleStore
QueryEventsInit ==
    IdleDetector /\ InitSeverity /\ IdleEvent /\ IdleCli /\ IdleMulti /\ IdleIngestor /\ IdleProcessor /\ IdleMetric /\ IdleRolling /\ InitQueryEvents
MetricRowsInit ==
    IdleDetector /\ InitSeverity /\ IdleEvent /\ IdleCli /\ IdleMulti /\ IdleIngestor /\ InitPersistent /\ IdleMetric /\ IdleRolling /\ InitStore
LifecycleInit ==
    IdleDetector /\ InitSeverity /\ IdleEvent /\ IdleCli /\ IdleMulti /\ IdleIngestor /\ IdleProcessor /\ IdleMetric /\ IdleRolling /\ InitLifecycle
BucketsInit ==
    IdleDetector /\ InitSeverity /\ IdleEvent /\ IdleCli /\ IdleMulti /\ IdleIngestor /\ IdleProcessor /\ IdleMetric /\ IdleRolling /\ InitBuckets
MultiInit ==
    InitShared /\ InitSeverity /\ IdleEvent /\ IdleCli /\ InitMulti /\ IdleIngestor /\ IdleProcessor /\ IdleMetric
        /\ IdleRolling /\ IdleStore
IngestorInit ==
    IdleDetector /\ InitSeverity /\ IdleEvent /\ IdleCli /\ IdleMulti /\ InitIngestor /\ IdleProcessor /\ IdleMetric
        /\ IdleRolling /\ IdleStore
LogEventInit ==
    IdleDetector /\ InitSeverity /\ InitEvent /\ IdleCli /\ IdleMulti /\ IdleIngestor
        /\ IdleProcessor /\ IdleMetric /\ IdleRolling /\ IdleStore
AddEventsInit ==
    IdleDetector /\ InitSeverity /\ IdleEvent /\ IdleCli /\ IdleMulti /\ IdleIngestor /\ InitAddEvents /\ IdleMetric /\ IdleRolling /\ InitStore
CliInit ==
    IdleDetector /\ InitSeverity /\ IdleEvent /\ InitCli /\ IdleMulti /\ IdleMetric /\ IdleRolling
ResetsInit == DetectorInit \/ ProcessorInit
LimitsInit ==
    IdleDetector /\ InitSeverity /\ IdleEvent /\ IdleCli /\ IdleMulti /\ IdleIngestor /\ IdleProcessor /\ IdleMetric /\ IdleRolling /\ InitLimits
StoreInit == IdleDetector /\ InitSeverity /\ IdleEvent /\ IdleCli /\ IdleMulti /\ IdleIngestor /\ IdleProcessor /\ IdleMetric /\ IdleRolling /\ InitStore

SpecDetector == DetectorInit /\ [][NextDetector]_vars
SpecSeverity == SeverityInit /\ [][NextSeverity]_vars
SpecProcessor == ProcessorInit /\ [][NextProcessor]_vars
SpecDuplicateNames == DuplicateNamesInit /\ [][NextProcessor]_vars
SpecProcessEvents == BatchInit /\ [][NextBatch]_vars
SpecMetric == MetricInit /\ [][NextMetric]_vars
SpecStore == StoreInit /\ [][NextStore]_vars
SpecQueryEvents == QueryEventsInit /\ [][NextQueryEvents]_vars
SpecLimits == LimitsInit /\ [][NextLimits]_vars
SpecMetricRows == MetricRowsInit /\ [][NextMetricRows]_vars
SpecLifecycle == LifecycleInit /\ [][NextLifecycle]_vars
SpecBuckets == BucketsInit /\ [][NextBuckets]_vars
SpecMulti == MultiInit /\ [][NextMulti]_vars
SpecIngestor == IngestorInit /\ [][NextIngestor]_vars
SpecLogEvent == LogEventInit /\ [][NextLogEvent]_vars
SpecCli == CliInit /\ [][NextCli]_vars
SpecAddEvents == AddEventsInit /\ [][NextAddEvents]_vars
SpecWriters == StoreInit /\ [][NextWriters]_vars
SpecResets == ResetsInit /\ [][NextResets]_vars
SpecRolling == RollingInit /\ [][NextRolling]_vars /\ RollingCallRuns

(***************************************************************************)
(* Properties of the AnomalyDetector                                       *)
(***************************************************************************)
RECURSIVE SeqSumSq(_)
SeqSumSq(s) == IF s = <<>> THEN 0 ELSE Head(s) * Head(s) + SeqSumSq(Tail(s))

\* Population statistics of the stored window, from the sums n, S, Q:
\* n^2 * variance = n*Q - S^2 and n * (v - mean) = n*v - S
PopVarNum == Len(values) * SeqSumSq(values) - SeqSum(values) * SeqSum(values)
PopDevNum(v) == Len(values) * v - SeqSum(values)
\* The exact |z| of the value v against the threshold, when the variance is
\* positive: above it, equal to it
PopZAbove(v) ==
    PopDevNum(v) * PopDevNum(v) * threshold.den * threshold.den
        > threshold.num * threshold.num * PopVarNum
PopZEqual(v) ==
    PopDevNum(v) * PopDevNum(v) * threshold.den * threshold.den
        = threshold.num * threshold.num * PopVarNum
\* |z| >= threshold for the z-score as the floats give it
PopZAtLeast(v) == PopZAbove(v) \/ (PopZEqual(v) /\ det_round >= 0)
LastValue == Last(det_submitted)[1]
AllEqual(s) == \A i, j \in 1..Len(s) : s[i] = s[j]
\* all samples of the window before the newest are equal, the newest differs
ConstantBaselineOutlier ==
    /\ Len(values) >= 2
    /\ AllEqual(SubSeq(values, 1, Len(values) - 1))
    /\ values[Len(values)] # values[1]

\* C37: a detector whose window_size is below its min_samples never returns
\* an anomaly: its window never holds min_samples values.
C37_SmallWindowNeverDetects ==
    window_size < min_samples =>
        /\ Len(values) < min_samples
        /\ det_ret = None

\* A window of two values under min_samples = 3 is full, has lost a value,
\* and its newest value lies a whole standard deviation from the mean, which
\* is at or above the threshold
C37_Witness ==
    /\ window_size = 2 /\ min_samples = 3 /\ threshold.num <= threshold.den
    /\ det_op = "add_value"
    /\ Len(det_submitted) = 3
    /\ values = <<-1, 1>>
    /\ det_ret = None

\* The fewest samples whose population allows |z| >= 4: 4 * 4 + 1
CriticalSamples == 4 * 4 + 1
\* add_value got as far as the z-score of the newest value
ZComputed ==
    det_op = "add_value" /\ ~TooFewSamples(Len(values)) /\ PopVarNum > 0
\* The exact z squared against n - 1, from the sums of the window
ExactZWithinBound ==
    PopDevNum(LastValue) * PopDevNum(LastValue) <= (Len(values) - 1) * PopVarNum
ExactZAtBound ==
    PopDevNum(LastValue) * PopDevNum(LastValue) = (Len(values) - 1) * PopVarNum
\* The exact |z| is a number the float is compared with
ExactZOnBoundary ==
    \E b \in {threshold, Rat(5, 2), Rat(3, 1), Rat(4, 1)} :
        PopDevNum(LastValue) * PopDevNum(LastValue) * b.den * b.den
            = b.num * b.num * PopVarNum
\* threshold squared exceeds k
ThresholdSqAbove(k) == threshold.num * threshold.num > k * threshold.den * threshold.den
\* The severity of the largest |z| that n samples allow, however rounded
SeveritiesAtBound(n) ==
    {_calculate_severity([sq |-> Rat(n - 1, 1), err |-> e]) : e \in Rounding}

\* C38 as stated: for every add_value call that computes a z-score over n
\* stored samples, the z-score computed is at most sqrt(n - 1) in absolute
\* value.
C38_ComputedZWithinBound ==
    ZComputed => (ExactZWithinBound /\ ~(ExactZAtBound /\ det_round > 0))

\* C38 amended: for every add_value call that computes a z-score over n
\* stored samples, the exact z squared is at most n - 1, and the float
\* computed exceeds sqrt(n - 1) by its rounding at most; no anomaly is
\* returned when the threshold squared exceeds N - 1 by more than that
\* rounding; and severity "critical" needs at least 17 samples in the window
\* (the severity of the largest |z| of each smaller window is worked out
\* once, for the detector just constructed).
C38_PopulationBound ==
    /\ ZComputed =>
           /\ ExactZWithinBound
           /\ det_round > 0 => (ExactZAtBound \/ ExactZOnBoundary)
    /\ det_ret # None =>
           /\ det_ret.z_score.sq.num <= (Len(values) - 1) * det_ret.z_score.sq.den
           /\ ~ThresholdSqAbove(window_size - 1)
           /\ det_ret.severity = "critical" => Len(values) >= CriticalSamples
    /\ det_op = "init" =>
           /\ \A n \in 1..(CriticalSamples - 1) :
                  "critical" \notin SeveritiesAtBound(n)
           /\ "critical" \in SeveritiesAtBound(CriticalSamples)

\* Three samples, the newest alone differing from the others: the exact
\* |z| is sqrt(2), the float computed is above it, an anomaly is returned
\* under threshold 1 and none could be under threshold 2
C38_Witness ==
    /\ ZComputed
    /\ Len(values) = 3
    /\ ConstantBaselineOutlier
    /\ ExactZAtBound
    /\ det_round > 0
    /\ threshold = Rat(1, 1)
    /\ det_ret.kind = "Anomaly"

\* C4 as stated: |z| < threshold gives no anomaly; |z| >= threshold with
\* sigma >= 1e-10 gives an anomaly, however few samples are stored.
C4_ThresholdLawAsStated ==
    det_op = "add_value" =>
        /\ (PopVarNum > 0 /\ ~PopZAtLeast(LastValue)) => det_ret = None
        /\ (PopVarNum > 0 /\ PopZAtLeast(LastValue)) => det_ret.kind = "Anomaly"

\* C4 amended: |z| < threshold gives no anomaly; |z| >= threshold with
\* sigma >= 1e-10 and at least min_samples samples stored gives an anomaly.
C4_ThresholdLaw ==
    det_op = "add_value" =>
        /\ (PopVarNum > 0 /\ ~PopZAtLeast(LastValue)) => det_ret = None
        /\ (PopVarNum > 0 /\ PopZAtLeast(LastValue) /\ Len(values) >= min_samples)
               => det_ret.kind = "Anomaly"

C4_Witness ==
    /\ det_op = "add_value"
    /\ PopVarNum > 0
    /\ PopZAtLeast(LastValue)
    /\ threshold.num > 0
    /\ Len(values) >= min_samples
    /\ det_ret.kind = "Anomaly"

\* C6: the detector holds exactly the last min(k, N) submitted (value,
\* timestamp) pairs in submission order; both buffers have the same length,
\* which never exceeds N.
C6_LastNPairs ==
    LET k == Len(det_submitted)
        n == Min(k, window_size)
    IN  /\ Len(values) = Len(timestamps)
        /\ Len(values) <= window_size
        /\ Len(values) = n
        /\ \A i \in 1..n : <<values[i], timestamps[i]>> = det_submitted[k - n + i]

C6_Witness ==
    /\ det_op = "add_value"
    /\ Len(det_submitted) > window_size
    /\ Len(values) = window_size
    /\ <<values[1], timestamps[1]>> # det_submitted[1]

\* C7: add_value returns no anomaly whenever fewer than min_samples samples
\* are stored after the append, whatever the value.
C7_InsufficientSamples ==
    (det_op = "add_value" /\ Len(values) < min_samples) => det_ret = None

C7_Witness ==
    /\ det_op = "add_value"
    /\ Len(values) < min_samples
    /\ PopVarNum > 0
    /\ PopZAtLeast(LastValue)
    /\ det_ret = None

\* C8: when all values of the window, the new one included, are equal,
\* add_value returns no anomaly for every threshold, threshold 0 included.
C8_ConstantGuard ==
    (det_op = "add_value" /\ AllEqual(values)) => det_ret = None

C8_Witness ==
    /\ det_op = "add_value"
    /\ threshold.num = 0
    /\ Len(values) >= 2
    /\ Len(values) >= min_samples
    /\ AllEqual(values)
    /\ det_ret = None

\* C9 as stated: with a constant baseline and at least min_samples samples
\* stored, one value different from the baseline returns an anomaly.
C9_OutlierAlwaysFlagged ==
    (det_op = "add_value" /\ Len(values) >= min_samples /\ ConstantBaselineOutlier)
        => det_ret.kind = "Anomaly"

\* C9 amended: in that situation, with n samples stored after the append
\* (n >= 2), the exact z-score is sqrt(n - 1) in absolute value: an anomaly
\* is returned whenever threshold < sqrt(n - 1) and none whenever
\* threshold > sqrt(n - 1).
C9_OutlierFlaggedByThreshold ==
    (det_op = "add_value" /\ Len(values) >= min_samples /\ ConstantBaselineOutlier)
        => /\ threshold.num * threshold.num
                  < (Len(values) - 1) * threshold.den * threshold.den
               => det_ret.kind = "Anomaly"
           /\ threshold.num * threshold.num
                  > (Len(values) - 1) * threshold.den * threshold.den
               => det_ret = None

C9_Witness ==
    /\ det_op = "add_value"
    /\ Len(values) >= min_samples
    /\ ConstantBaselineOutlier
    /\ threshold.num > 0
    /\ threshold.num * threshold.num < (Len(values) - 1) * threshold.den * threshold.den
    /\ det_ret.kind = "Anomaly"

\* n * (v - mean) for the newest value: its sign is the sign of the z-score
NewestAboveMean == PopDevNum(LastValue) > 0

\* C11: every emitted anomaly is a SPIKE exactly when its z-score is
\* positive, that is when the value is above the rolling mean, whatever the
\* sign of the baseline, and a DROP otherwise; its explanation names the
\* metric and says "spiked" for a SPIKE and "dropped" for a DROP.
C11_KindFollowsSign ==
    (det_op = "add_value" /\ det_ret.kind = "Anomaly") =>
        /\ det_ret.anomaly_type = "spike" <=> det_ret.z_score.sign > 0
        /\ det_ret.anomaly_type = "spike" <=> NewestAboveMean
        /\ det_ret.anomaly_type \in {"spike", "drop"}
        /\ det_ret.explanation.metric_name = det_ret.metric_name
        /\ det_ret.anomaly_type = "spike" => det_ret.explanation.verb = "spiked"
        /\ det_ret.anomaly_type = "drop" => det_ret.explanation.verb = "dropped"

\* a SPIKE over a negative baseline mean
C11_Witness ==
    /\ det_op = "add_value"
    /\ det_ret.kind = "Anomaly"
    /\ det_ret.anomaly_type = "spike"
    /\ det_ret.baseline_mean.num < 0
    /\ det_ret.explanation.verb = "spiked"

\* C12: for a DROP with a positive baseline mean, the explanation has the
\* ratio form only when mean / value >= 2 with value > 0; when the value is
\* 0 it has the standard-deviation form.
C12_DropRatioForm ==
    (/\ det_op = "add_value"
     /\ det_ret.kind = "Anomaly"
     /\ det_ret.anomaly_type = "drop"
     /\ det_ret.baseline_mean.num > 0) =>
        /\ det_ret.explanation.form = "x below baseline"
              => (/\ det_ret.value > 0
                  /\ det_ret.baseline_mean.num
                        >= 2 * det_ret.value * det_ret.baseline_mean.den)
        /\ det_ret.value = 0
              => det_ret.explanation.form = "standard deviations below baseline"

(***************************************************************************)
(* Properties of _calculate_severity                                       *)
(***************************************************************************)
SeverityRank(s) ==
    CASE s = "low" -> 0 [] s = "medium" -> 1 [] s = "high" -> 2 [] s = "critical" -> 3

\* |z| is at least p/q: the float is above p/q, or p/q itself
AbsAtLeast(z, p, q) ==
    \/ z.sq.num * q * q > p * p * z.sq.den
    \/ z.sq.num * q * q = p * p * z.sq.den /\ z.err >= 0
\* the order of the floats of AbsZ
FloatLeq(a, b) ==
    \/ a.sq.num < b.sq.num
    \/ a.sq.num = b.sq.num /\ a.err <= b.err
BandOf(e) ==
    /\ e.severity = "critical" <=> AbsAtLeast(e.z, 4, 1)
    /\ e.severity = "high" <=> (AbsAtLeast(e.z, 3, 1) /\ ~AbsAtLeast(e.z, 4, 1))
    /\ e.severity = "medium" <=> (AbsAtLeast(e.z, 5, 2) /\ ~AbsAtLeast(e.z, 3, 1))
    /\ e.severity = "low" <=> ~AbsAtLeast(e.z, 5, 2)

\* C10: critical when |z| >= 4, high when 3 <= |z| < 4, medium when
\* 2.5 <= |z| < 3, low otherwise; of two anomalies, the one with the larger
\* |z| never has the lower severity.
C10_SeverityMonotone ==
    /\ sev_a # Unset => BandOf(sev_a)
    /\ sev_b # Unset => BandOf(sev_b)
    /\ (sev_a # Unset /\ sev_b # Unset /\ FloatLeq(sev_a.z, sev_b.z))
           => SeverityRank(sev_a.severity) <= SeverityRank(sev_b.severity)

C10_Witness ==
    /\ sev_a # Unset /\ sev_b # Unset
    /\ FloatLeq(sev_a.z, sev_b.z)
    /\ sev_a.z = [sq |-> Rat(100, 16), err |-> 0]
    /\ sev_a.severity = "medium"
    /\ sev_b.z = [sq |-> Rat(256, 16), err |-> 0]
    /\ sev_b.severity = "critical"

(***************************************************************************)
(* Properties of the MetricProcessor                                       *)
(***************************************************************************)
InOrder(s) == \A i \in 1..(Len(s) - 1) : s[i].timestamp <= s[i + 1].timestamp

\* The events of hist inside [last - window, last], last being the
\* timestamp of the latest event of hist
InWindow(hist, window) ==
    IF hist = <<>> THEN <<>>
    ELSE SelectSeq(hist, LAMBDA e :
            /\ Last(hist).timestamp - window <= e.timestamp
            /\ e.timestamp <= Last(hist).timestamp)

\* C1: for events submitted in non-decreasing timestamp order, each metric's
\* buffer holds exactly the events that matched its predicate and whose
\* timestamp lies in [lastTimestamp - window, lastTimestamp], both ends
\* included, lastTimestamp being that of the latest event that matched.
C1_WindowMonotonicity ==
    InOrder(mp_submitted) =>
        \A i \in 1..Len(metrics) :
            metric_windows[metrics[i].name]
                = InWindow(mp_matched[metrics[i].name], metrics[i].window)

C1_Witness ==
    /\ mp_op = "add_event"
    /\ InOrder(mp_submitted)
    /\ \E i \in 1..Len(metrics) :
          LET buf == metric_windows[metrics[i].name] IN
          /\ Len(buf) >= 2
          /\ Len(mp_matched[metrics[i].name]) > Len(buf)
          /\ buf[1].timestamp = Last(buf).timestamp - metrics[i].window

\* C2: when a predicate or extractor raises (or a required extractor is
\* missing) during add_event, no buffer and no last result changes.
C2_RaiseLeavesStateUnchanged ==
    [][(mp_op' = "add_event" /\ mp_ret'.kind = "raise")
          => (metric_windows' = metric_windows /\ metric_results' = metric_results)]_vars

\* C3: after any add_event call, in any arrival order, no event retained in
\* a matched metric's buffer is earlier than the returned windowStart.
C3_NothingBeforeWindowStart ==
    (mp_op = "add_event" /\ mp_ret.kind = "ok") =>
        \A n \in DOMAIN mp_ret.updated :
            \A i \in 1..Len(metric_windows[n]) :
                metric_windows[n][i].timestamp >= mp_ret.updated[n].window_start

\* The add_event call just made returned a mapping
Returned == mp_op = "add_event" /\ mp_ret.kind = "ok"
\* The names of the metrics whose predicate is true of the event
MatchedNames(event) ==
    {metrics[i].name : i \in {j \in 1..Len(metrics) : Filter(metrics[j], event) = "True"}}
\* An earlier event was expired from the buffer kept under the name n
Evicted(n) == Len(mp_matched[n]) > Len(metric_windows[n])

\* C13: add_event returns a mapping whose keys are exactly the names of the
\* metrics whose predicate matched the event, and afterwards get_metric(name)
\* is the result add_event most recently returned for that name, None while
\* the metric has never matched an event.
C13_KeysAndLastReturned ==
    Returned =>
        /\ DOMAIN mp_ret.updated = MatchedNames(Last(mp_submitted))
        /\ \A n \in Names :
              /\ get_metric(n) = mp_returned[n]
              /\ mp_matched[n] = <<>> => get_metric(n) = None

\* An add_event step, and the event it was called with
AddEventCalled == mp_op' = "add_event" /\ Len(mp_submitted') = Len(mp_submitted) + 1
\* The event lies beyond the window of the events buffered under the name n
BeyondWindow(event, metric) ==
    /\ metric_windows[metric.name] # <<>>
    /\ event.timestamp - metric.window > Last(metric_windows[metric.name]).timestamp

\* C34: an add_event call with an event that does not match a metric's
\* predicate leaves that metric's buffer and last result as they were,
\* however far the event's timestamp lies beyond the metric's window:
\* get_metric returns what it returned before and no buffered event is
\* expired.
C34_NonMatchingLeavesMetric ==
    [][AddEventCalled =>
         \A i \in 1..Len(metrics) :
            Filter(metrics[i], Last(mp_submitted')) = "False" =>
               /\ metric_windows'[metrics[i].name] = metric_windows[metrics[i].name]
               /\ metric_results'[metrics[i].name] = metric_results[metrics[i].name]
               /\ get_metric(metrics[i].name)' = get_metric(metrics[i].name)]_vars

\* The last event did not match a metric whose buffered events all lie
\* before the window that event would have opened; they are still there,
\* and so is the metric's result
C34_Witness ==
    /\ mp_op = "add_event" /\ mp_ret.kind = "ok"
    /\ \E i \in 1..Len(metrics) :
          /\ Filter(metrics[i], Last(mp_submitted)) = "False"
          /\ BeyondWindow(Last(mp_submitted), metrics[i])
          /\ get_metric(metrics[i].name).kind = "MetricResult"
          /\ get_metric(metrics[i].name).window_end
                 < Last(mp_submitted).timestamp - metrics[i].window

\* C14: for a non-grouped COUNT metric the value add_event returns is the
\* number of events in that metric's buffer after eviction.
C14_CountIsCardinality ==
    Returned =>
        \A i \in 1..Len(metrics) :
            (/\ metrics[i].aggregation = "count"
             /\ metrics[i].group_by = "none"
             /\ metrics[i].name \in DOMAIN mp_ret.updated) =>
                mp_ret.updated[metrics[i].name].value
                    = Num(Len(metric_windows[metrics[i].name]), 1)

\* the buffer holds the same event twice, and an older one was evicted
C14_Witness ==
    /\ Returned
    /\ \E i \in 1..Len(metrics) :
          LET n == metrics[i].name IN
          /\ metrics[i].aggregation = "count"
          /\ metrics[i].group_by = "none"
          /\ metrics[i].filter = "error"
          /\ n \in DOMAIN mp_ret.updated
          /\ Evicted(n)
          /\ Len(metric_windows[n]) = 2
          /\ metric_windows[n][1] = metric_windows[n][2]
          /\ mp_ret.updated[n].value = Num(2, 1)

\* The buffered events whose group key is k
WithKey(buf, metric, k) == {j \in 1..Len(buf) : GroupBy(metric, buf[j]) = k}
RECURSIVE SumOfNums(_, _)
SumOfNums(f, keys) ==
    IF keys = {} THEN 0
    ELSE LET k == CHOOSE x \in keys : TRUE IN f[k].num + SumOfNums(f, keys \ {k})

\* C15: a result of a metric with a group key has value None and a grouped
\* map whose groups partition the buffered events: its keys are the keys of
\* the buffered events, so every buffered event falls in exactly one group
\* and no group is empty, and for COUNT each group's count is the number of
\* buffered events with that key, the counts summing to the buffer size.
C15_GroupsPartitionBuffer ==
    Returned =>
        \A i \in 1..Len(metrics) :
            (metrics[i].group_by # "none" /\ metrics[i].name \in DOMAIN mp_ret.updated) =>
                LET m == metrics[i]
                    buf == metric_windows[m.name]
                    r == mp_ret.updated[m.name]
                    groups == r.grouped_values
                IN  /\ r.value = None
                    /\ DOMAIN groups = {GroupBy(m, buf[j]) : j \in 1..Len(buf)}
                    /\ \A j \in 1..Len(buf) :
                          Cardinality({k \in DOMAIN groups : j \in WithKey(buf, m, k)}) = 1
                    /\ m.aggregation = "count" =>
                          /\ \A k \in DOMAIN groups :
                                /\ groups[k] = Num(Cardinality(WithKey(buf, m, k)), 1)
                                /\ groups[k].num >= 1
                          /\ SumOfNums(groups, DOMAIN groups) = Len(buf)

\* two groups of different sizes
C15_Witness ==
    /\ Returned
    /\ \E i \in 1..Len(metrics) :
          LET n == metrics[i].name IN
          /\ metrics[i].group_by = "level"
          /\ n \in DOMAIN mp_ret.updated
          /\ Len(metric_windows[n]) = 3
          /\ mp_ret.updated[n].value = None
          /\ mp_ret.updated[n].grouped_values = ("ERROR" :> Num(2, 1)) @@ ("INFO" :> Num(1, 1))

\* C16: for events submitted in non-decreasing timestamp order, RATE over a
\* buffer of n >= 1 events is n divided by the seconds between the first and
\* the last buffered event, and n itself when that span is zero (1 for a
\* single event).
C16_RateOverSpan ==
    (Returned /\ InOrder(mp_submitted)) =>
        \A i \in 1..Len(metrics) :
            (/\ metrics[i].aggregation = "rate"
             /\ metrics[i].group_by = "none"
             /\ metrics[i].name \in DOMAIN mp_ret.updated) =>
                LET buf == metric_windows[metrics[i].name]
                    n == Len(buf)
                    span == Last(buf).timestamp - buf[1].timestamp
                    rate == mp_ret.updated[metrics[i].name].value
                IN  /\ n >= 1
                    /\ rate.kind = "Num"
                    /\ rate.den > 0
                    /\ IF span = 0 THEN rate.num = n * rate.den
                       ELSE rate.num * span = n * rate.den
                    /\ n = 1 => rate = Num(1, 1)

\* two events at the same instant: the rate is 2, not 0
C16_Witness ==
    /\ Returned
    /\ InOrder(mp_submitted)
    /\ \E i \in 1..Len(metrics) :
          LET n == metrics[i].name IN
          /\ metrics[i].aggregation = "rate"
          /\ n \in DOMAIN mp_ret.updated
          /\ Len(metric_windows[n]) = 2
          /\ metric_windows[n][1].timestamp = metric_windows[n][2].timestamp
          /\ mp_ret.updated[n].value = Num(2, 1)

\* A metric whose aggregation needs values and that has no value extractor
NeedsExtractor(metric) ==
    metric.aggregation \in ValueAggregations /\ metric.value_extractor = "none"
ExtractorRequired == Raise("ValueError: value_extractor required")

\* C17: a metric with AVERAGE, SUM, MIN, MAX, PERCENTILE or UNIQUE_COUNT and
\* no value extractor is accepted at construction; add_event raises the
\* error when an event matches the metric's predicate, and never raises it
\* for an event that matches no such metric.
C17_MissingExtractorRaisesOnMatch ==
    /\ \A a \in ValueAggregations :
          Metric("first", "error", a, TimeDelta(1), "none", "none", Some(50)).kind = "Metric"
    /\ \A i \in 1..Len(metrics) : metrics[i].kind = "Metric"
    /\ mp_op = "add_event" =>
          LET matching == \E i \in 1..Len(metrics) :
                              /\ NeedsExtractor(metrics[i])
                              /\ Filter(metrics[i], Last(mp_submitted)) = "True"
          IN  /\ matching => mp_ret.kind = "raise"
              /\ mp_ret = ExtractorRequired => matching

\* events that did not match came first and raised nothing; the first
\* matching event raises
C17_Witness ==
    /\ mp_op = "add_event"
    /\ mp_ret = ExtractorRequired
    /\ Len(mp_submitted) = 3
    /\ \E i \in 1..Len(metrics) :
          /\ NeedsExtractor(metrics[i])
          /\ metrics[i].aggregation = "percentile"
          /\ Len(mp_matched[metrics[i].name]) = 1

\* C19: no processor holds two metrics of the same name, so each matching
\* event is appended once to the buffer kept under a name: after add_event
\* no buffer holds more events than were submitted.
C19_UniqueNames ==
    mp_op = "add_event" =>
        /\ \A i, j \in 1..Len(metrics) : i # j => metrics[i].name # metrics[j].name
        /\ \A n \in Names : Len(metric_windows[n]) <= Len(mp_submitted)

\* add_event called on the events one by one, from the processor state st:
\* the processor after each call, up to the first call that raises
RECURSIVE OneByOne(_, _)
OneByOne(st, evs) ==
    IF evs = <<>> THEN <<>>
    ELSE LET after == AddEvent(st, Head(evs)) IN
         IF after.raised # None THEN <<after>>
         ELSE <<after>> \o OneByOne(after, Tail(evs))

\* The results those calls returned for the name n, in order
RECURSIVE ResultsFor(_, _)
ResultsFor(n, runs) ==
    IF runs = <<>> THEN <<>>
    ELSE (IF n \in DOMAIN Head(runs).updated THEN <<Head(runs).updated[n]>> ELSE <<>>)
             \o ResultsFor(n, Tail(runs))

\* C20: process_events(events) leaves the processor in the state that
\* add_event called on the same events one by one, in order, leaves it in,
\* and returns for each metric updated at least once the results those
\* calls return for it, in submission order; when one of the calls raises,
\* process_events raises the same exception at the same event.
C20_ProcessEventsIsOneByOne ==
    [][mp_op' = "process_events" =>
          LET batch == SubSeq(mp_submitted', Len(mp_submitted) + 1, Len(mp_submitted'))
              runs == OneByOne(Processor, batch)
              final == IF runs = <<>> THEN Processor ELSE Last(runs)
          IN  /\ metric_windows' = final.windows
              /\ metric_results' = final.results
              /\ IF final.raised # None THEN mp_ret' = final.raised
                 ELSE /\ mp_ret'.kind = "ok"
                      /\ DOMAIN mp_ret'.all_updates
                            = {n \in Names : ResultsFor(n, runs) # <<>>}
                      /\ \A n \in DOMAIN mp_ret'.all_updates :
                            mp_ret'.all_updates[n] = ResultsFor(n, runs)]_vars

\* a batch of two events on a processor that already holds events: one
\* metric was updated by both, the other by one of them
C20_Witness ==
    /\ mp_op = "process_events"
    /\ mp_ret.kind = "ok"
    /\ Len(mp_submitted) = 3
    /\ DOMAIN mp_ret.all_updates = Names
    /\ Len(mp_ret.all_updates["first"]) = 1
    /\ Len(mp_ret.all_updates["second"]) = 2
    /\ mp_ret.all_updates["second"][2].value = Num(3, 1)

(***************************************************************************)
(* Properties of clear() and reset()                                       *)
(***************************************************************************)
\* MetricProcessor(metrics), as a record
FreshProcessor ==
    [windows |-> [n \in Names |-> <<>>], results |-> [n \in Names |-> None],
     matched |-> [n \in Names |-> <<>>], returned |-> [n \in Names |-> None],
     updated |-> EmptyMap, raised |-> None]

\* add_event called on the events one by one, from the processor state st,
\* the caller going on after a call that raised
RECURSIVE Replayed(_, _)
Replayed(st, evs) ==
    IF evs = <<>> THEN st ELSE Replayed(AddEvent(st, Head(evs)), Tail(evs))

\* What the same add_event calls leave in, and return from, a processor
\* freshly constructed with the same metrics
SameAsFresh(fresh) ==
    /\ metric_windows = fresh.windows
    /\ metric_results = fresh.results
    /\ mp_op = "add_event" =>
          mp_ret = IF fresh.raised # None THEN fresh.raised
                   ELSE [kind |-> "ok", updated |-> fresh.updated]

\* What add_value returns on a detector freshly constructed with the same
\* parameters and given the values submitted since reset()
FreshVerdict ==
    LET n == Min(Len(det_submitted), window_size)
        fed == [i \in 1..n |-> det_submitted[Len(det_submitted) - n + i][1]]
    IN  Detect(fed, Statistics(fed), LastValue, Last(det_submitted)[2], det_round).ret

\* C21: clear() leaves every buffer empty and get_all_metrics() empty, and
\* the add_event calls made since the last clear() leave the processor in
\* the state, and return the results, that they do on a freshly constructed
\* processor with the same metrics.  reset() leaves the detector's window
\* empty; afterwards no anomaly is returned before min_samples values have
\* been submitted again, and every verdict is the one of a fresh detector.
C21_ClearAndResetStartAfresh ==
    /\ mp_op = "clear" =>
          /\ \A n \in Names : metric_windows[n] = <<>>
          /\ get_all_metrics = EmptyMap
    /\ SameAsFresh(Replayed(FreshProcessor, mp_submitted))
    /\ det_op = "reset" => (values = <<>> /\ timestamps = <<>>)
    /\ det_op = "add_value" =>
          /\ Len(det_submitted) < min_samples => det_ret = None
          /\ det_ret = FreshVerdict

\* after a clear() that discarded events and results, two events have been
\* counted: the count is 2, that of a fresh processor
C21_Witness ==
    /\ mp_dropped
    /\ mp_op = "add_event"
    /\ mp_ret.kind = "ok"
    /\ Len(mp_submitted) = 2
    /\ "first" \in DOMAIN mp_ret.updated
    /\ mp_ret.updated["first"].value = Num(2, 1)

\* after a reset() that discarded samples, an outlier submitted before
\* min_samples values are stored again is not reported
C21_ResetReached ==
    /\ det_dropped
    /\ det_op = "add_value"
    /\ Len(det_submitted) < min_samples
    /\ PopVarNum > 0
    /\ PopZAtLeast(LastValue)
    /\ det_ret = None

(***************************************************************************)
(* Properties of the RollingWindowProcessor                                *)
(***************************************************************************)
\* C22: every add_event call completes, whatever the event and the
\* configured window size: a call that has entered the loop advancing the
\* tumbling window leaves it and returns.
C22_EveryCallCompletes == (rw_pc = "catch up") ~> (rw_pc = "idle")

\* With a window_size above zero the loop is left
PositiveWindowCallCompletes ==
    (rw_pc = "catch up" /\ rw_window_size > 0) ~> (rw_pc = "idle")

Tumbling == rw_window_type = "tumbling"
\* The window w spans [start, start + window_size) and holds the time t
Spans(w) == w.end_time = w.start_time + rw_window_size
Holds(w, t) == w.start_time <= t /\ t < w.end_time
HasWindow == rw_current_metrics.kind = "WindowMetrics"

\* The completed windows start later and later and do not overlap
CompletedInOrder ==
    \A i, j \in 1..Len(rw_completed_windows) :
        i < j => /\ rw_completed_windows[i].start_time < rw_completed_windows[j].start_time
                 /\ rw_completed_windows[i].end_time <= rw_completed_windows[j].start_time
AllSpan ==
    /\ \A i \in 1..Len(rw_completed_windows) : Spans(rw_completed_windows[i])
    /\ HasWindow => Spans(rw_current_metrics)
\* A completed window is not counted into any more
CompletedKept ==
    \A i \in 1..Len(rw_completed_windows) :
        /\ i <= Len(rw_completed_windows')
        /\ rw_completed_windows'[i] = rw_completed_windows[i]

\* A step of a tumbling add_event call that returns, and one that has
\* added its event to the buffer
Returns ==
    /\ Tumbling /\ rw_pc' = "idle"
    /\ rw_pc = "catch up" \/ rw_calls' = rw_calls + 1
Accepts ==
    /\ Returns
    /\ rw_pc = "catch up" \/ Len(rw_events') = Len(rw_events) + 1
\* The accepted event is counted once, in the current window, which holds
\* its timestamp, and no completed window holds it
CountedOnce ==
    /\ Holds(rw_current_metrics', rw_event'.timestamp)
    /\ rw_current_metrics'.total_events =
           1 + (IF rw_pc = "idle" /\ HasWindow THEN rw_current_metrics.total_events ELSE 0)
    /\ \A i \in 1..Len(rw_completed_windows') :
           ~Holds(rw_completed_windows'[i], rw_event'.timestamp)

\* C32: tumbling windows span [start, start + window_size), the completed
\* windows have strictly increasing starts and are disjoint, and each
\* accepted event is counted in exactly one window, the one containing its
\* timestamp.
C32_TumblingWindowsPartition ==
    [][Tumbling => /\ AllSpan' /\ CompletedInOrder' /\ CompletedKept
                   /\ Accepts => CountedOnce]_vars

\* Two windows were completed, the second by an event that skipped a window
C32_Witness ==
    /\ Tumbling /\ rw_pc = "idle" /\ Len(rw_completed_windows) = 2
    /\ rw_completed_windows[2].end_time < rw_current_metrics.start_time
    /\ rw_current_metrics.total_events = 1

\* The end of the current window when the returning call was made, and
\* whether the call returns a window
EndAtCall ==
    IF rw_pc = "catch up" THEN rw_completed_window.end_time ELSE rw_current_window_end'[1]
ReturnsWindow == rw_ret'.kind = "WindowMetrics"
\* A call with an event older than the current window
SkippedCall ==
    /\ Tumbling /\ rw_pc = "idle" /\ rw_calls' = rw_calls + 1
    /\ rw_event'.timestamp < rw_current_window_start'[1]

\* C33: a tumbling add_event returns a completed window exactly when the
\* event's timestamp is at or beyond the current window's end, that window
\* is the one just completed and was not completed before, and an event
\* older than the current window's start is skipped: the call returns None
\* and changes neither the counters nor the completed windows.
C33_CompletedWindowReturnedOnce ==
    [][/\ Returns =>
            /\ ReturnsWindow <=> (rw_event'.timestamp >= EndAtCall)
            /\ ReturnsWindow =>
                  /\ rw_ret' = rw_completed_windows'[Len(rw_completed_windows')]
                  /\ \A i \in 1..(Len(rw_completed_windows') - 1) :
                         rw_completed_windows'[i] # rw_ret'
       /\ SkippedCall =>
            /\ rw_ret' = None
            /\ UNCHANGED <<rw_current_metrics, rw_completed_windows, rw_events>>]_vars

\* A window was returned by one call, and a later call with an event older
\* than the new window was skipped
C33_Witness ==
    /\ Tumbling /\ rw_pc = "idle" /\ rw_calls = 3
    /\ Len(rw_completed_windows) = 1
    /\ rw_event.timestamp < rw_current_window_start[1]
    /\ rw_ret = None
C33_WindowReturned ==
    Tumbling /\ rw_pc = "idle" /\ rw_ret.kind = "WindowMetrics" /\ rw_ret.total_events = 2

\* The sum of the counts of a map
RECURSIVE SumCounts(_, _)
SumCounts(d, keys) ==
    IF keys = {} THEN 0
    ELSE LET k == CHOOSE x \in keys : TRUE
         IN  d[k] + SumCounts(d, keys \ {k})
\* The counters of a WindowMetrics agree
CountersAgree(w) ==
    /\ w.total_events = SumCounts(w.events_by_level, DOMAIN w.events_by_level)
    /\ w.total_events = SumCounts(w.events_by_source, DOMAIN w.events_by_source)
    /\ w.error_count + w.warning_count <= w.total_events
\* Every WindowMetrics the processor holds or has returned
AllWindowMetrics ==
    {w \in {rw_current_metrics, rw_ret, rw_completed_window} : w.kind = "WindowMetrics"}
        \cup {rw_completed_windows[i] : i \in 1..Len(rw_completed_windows)}

\* C40: once the add_event calls made on a tumbling processor have
\* returned, get_event_count() equals current_metrics.total_events and
\* every buffered event's timestamp lies in [current_window_start,
\* current_window_end); in both window modes every WindowMetrics has
\* total_events = sum of events_by_level = sum of events_by_source and
\* error_count + warning_count <= total_events.
C40_CountersConsistent ==
    /\ (Tumbling /\ rw_pc = "idle" /\ HasWindow) =>
          /\ get_event_count = rw_current_metrics.total_events
          /\ \A i \in 1..Len(rw_events) :
                /\ rw_current_window_start[1] <= rw_events[i].timestamp
                /\ rw_events[i].timestamp < rw_current_window_end[1]
    /\ \A w \in AllWindowMetrics : CountersAgree(w)

\* A second tumbling window holds two events of different levels and
\* sources after the first was completed
C40_Witness ==
    /\ Tumbling /\ rw_pc = "idle" /\ Len(rw_completed_windows) = 1
    /\ get_event_count = 2
    /\ DOMAIN rw_current_metrics.events_by_level = {"FATAL", "WARNING"}
    /\ rw_current_metrics.error_count = 1 /\ rw_current_metrics.warning_count = 1
\* A sliding window counting three events
C40_SlidingReached ==
    /\ rw_window_type = "sliding" /\ HasWindow
    /\ rw_current_metrics.total_events = 3
    /\ DOMAIN rw_current_metrics.events_by_source = {"app", "db"}

(***************************************************************************)
(* Properties of PersistentMetricProcessor.add_events                      *)
(***************************************************************************)
\* A step that is an add_events call, and the state add_event called on
\* each event of its batch in order would have led to (the calls end with
\* the first that raises)
RECURSIVE EventByEvent(_, _, _)
EventByEvent(st, evs, k) ==
    IF evs = <<>> \/ st.proc.raised # None THEN st
    ELSE EventByEvent(PersistentAddEvent(st, Head(evs), k), Tail(evs), k + 1)
AddEventsCalled == db_op'.op = "add_events"
\* The processor and the events table after the step are those of st
SameProcessorAndEvents(st) ==
    /\ metric_windows' = st.proc.windows
    /\ metric_results' = st.proc.results
    /\ events' = st.events
    /\ event_ids' = st.event_ids
\* Every metric row of the log comes after the row of its event
EventRowsFirst(log) ==
    \A i \in 1..Len(log) :
        log[i].table = "metrics" =>
            \E j \in 1..(i - 1) : log[j].table = "events" /\ log[j].event = log[i].event
\* The step has added one metric row for each metric the batch updated,
\* with the metric's last result
OneRowPerMetricUpdated ==
    /\ Cardinality(metric_rows' \ metric_rows) = Cardinality(DOMAIN mp_ret'.updated)
    /\ \A n \in DOMAIN mp_ret'.updated :
          /\ mp_ret'.updated[n] = metric_results'[n]
          /\ \E r \in metric_rows' \ metric_rows :
                /\ r.metric_name = n
                /\ r.window_start = metric_results'[n].window_start
                /\ r.window_end = metric_results'[n].window_end
                /\ r.value = metric_results'[n].value
\* The number of results the calls have returned, over all metrics
Updates == SumCounts([n \in Names |-> Len(mp_matched[n])], Names)
OneRowPerUpdate(st) ==
    Len(st.metric_ids) - Len(metric_ids) = Updates' - Updates
BatchAsOneByOne(st) ==
    /\ SameProcessorAndEvents(st)
    /\ mp_ret'.kind = "ok" => (OneRowPerMetricUpdated /\ OneRowPerUpdate(st))
    /\ EventRowsFirst(db_op'.log) /\ EventRowsFirst(st.log)

\* C36 as stated: add_events(batch) leaves the processor and the events
\* table as add_event called on each event of the batch in order does,
\* stores one metric row per metric the batch updated, with its last result,
\* where add_event stores one per update, and both write an event's row
\* before any metric row derived from it.
C36_BatchAsOneByOne ==
    [][AddEventsCalled => BatchAsOneByOne(EventByEvent(Persistent, db_op'.events, 1))]_vars

\* C36, for the calls that return: an add_events(batch) call in which no
\* add_event of the processor raises leaves the processor and the events
\* table as the calls one by one do, stores one metric row per metric the
\* batch updated, with its last result, where the calls one by one store
\* one per update, and both write an event's row before any metric row
\* derived from it.
C36_ReturningBatchAsOneByOne ==
    [][(AddEventsCalled /\ mp_ret'.kind = "ok") =>
           BatchAsOneByOne(EventByEvent(Persistent, db_op'.events, 1))]_vars

\* A batch of two events has updated a metric twice and stored one row for
\* it, that of the second result
C36_Witness ==
    /\ db_op.op = "add_events" /\ mp_ret.kind = "ok"
    /\ Len(db_op.events) = 2
    /\ Len(mp_matched["first"]) = 2
    /\ Cardinality({r \in metric_rows : r.metric_name = "first"}) = 1
    /\ \E r \in metric_rows : r.metric_name = "first" /\ r.window_end = 2
\* A batch whose first event made the processor raise has stored both events
C36_RaisingBatchReached ==
    /\ db_op.op = "add_events" /\ mp_ret.kind = "raise"
    /\ Len(mp_submitted) = 1 /\ Len(event_ids) = 2

(***************************************************************************)
(* Properties of the CLI                                                   *)
(***************************************************************************)
\* C35: the ingest command closes the store it opened on every exit path:
\* when ingestion and metric computation succeed, and when either raises
\* and the command exits with a non-zero status.
C35_StoreClosedOnExit == cli_pc = "exited" => db_conn = "closed"

\* The store is closed when the command exits with status 0
StoreClosedOnSuccess == (cli_pc = "exited" /\ cli_status = 0) => db_conn = "closed"
\* The command has stored events and metric values and exited with status 0
SuccessReached ==
    /\ cli_pc = "exited" /\ cli_status = 0
    /\ Len(event_ids) = 2 /\ Len(metric_ids) = 2
\* The command has exited with status 1 after an exception of the ingestor,
\* and after one of the processor
IngestFailureReached ==
    cli_pc = "exited" /\ cli_status = 1 /\ ing_raised # None /\ Len(event_ids) = 1
MetricFailureReached ==
    cli_pc = "exited" /\ cli_status = 1 /\ ing_raised = None /\ mp_ret.kind = "raise"

(***************************************************************************)
(* Properties of Metric                                                    *)
(***************************************************************************)
\* C18: every successfully constructed Metric has a strictly positive
\* window, whether given as a '<int><s|m|h|d>' string or as a duration.
C18_PositiveWindow ==
    new_metric.ret.kind = "Metric" => new_metric.ret.window > 0

(***************************************************************************)
(* Properties of the MultiMetricAnomalyDetector                            *)
(***************************************************************************)

\* The values of a list of (value, timestamp) pairs
ValuesOf(pairs) == [i \in 1..Len(pairs) |-> pairs[i][1]]

\* The last n elements of a sequence
LastOf(s, n) == SubSeq(s, IF Len(s) > n THEN Len(s) - n + 1 ELSE 1, Len(s))

\* What an AnomalyDetector of its own, built with the shared parameters and
\* given only the values submitted for the metric n, holds and returns at its
\* last add_value
AloneBuffer(submitted, n) == LastOf(ValuesOf(submitted[n]), window_size)
AloneVerdict(submitted, round, n) ==
    NamedAs(Detect(AloneBuffer(submitted, n), Statistics(AloneBuffer(submitted, n)),
                   submitted[n][Len(submitted[n])][1],
                   submitted[n][Len(submitted[n])][2], round[n]).ret,
            n)

\* Lazily created, with the shared parameters, each holding its own values
DetectorsAreTheirOwn ==
    /\ DOMAIN mm_detectors = {n \in MetricNames : mm_submitted[n] # <<>>}
    /\ \A n \in DOMAIN mm_detectors :
          /\ mm_detectors[n].metric_name = n
          /\ mm_detectors[n].window_size = window_size
          /\ mm_detectors[n].threshold = threshold
          /\ mm_detectors[n].min_samples = min_samples
          /\ mm_detectors[n].values = AloneBuffer(mm_submitted, n)

\* The detector of every other name is left as it was, present or absent
OthersUntouched(names) ==
    \A m \in MetricNames \ names :
        /\ m \in DOMAIN mm_detectors' <=> m \in DOMAIN mm_detectors
        /\ m \in DOMAIN mm_detectors => mm_detectors'[m] = mm_detectors[m]

\* The anomalies among the verdicts of the items, in the items' order
RECURSIVE AnomaliesOf(_, _, _, _)
AnomaliesOf(submitted, round, items, i) ==
    IF i > Len(items) THEN <<>>
    ELSE IF AloneVerdict(submitted, round, items[i][1]) = None
         THEN AnomaliesOf(submitted, round, items, i + 1)
         ELSE <<AloneVerdict(submitted, round, items[i][1])>>
                  \o AnomaliesOf(submitted, round, items, i + 1)

AddMetricValueAlone ==
    mm_op'.op = "add_metric_value" =>
        /\ mm_op'.metric_name \in DOMAIN mm_detectors'
        /\ OthersUntouched({mm_op'.metric_name})
        /\ mm_ret' = AloneVerdict(mm_submitted', mm_round', mm_op'.metric_name)

GetAllAnomaliesAlone ==
    mm_op'.op = "get_all_anomalies" =>
        /\ OthersUntouched({mm_op'.metric_values[i][1] : i \in DOMAIN mm_op'.metric_values})
        /\ mm_ret' = AnomaliesOf(mm_submitted', mm_round', mm_op'.metric_values, 1)
        /\ Len(mm_ret') <= Len(mm_op'.metric_values)
        /\ \A i, j \in DOMAIN mm_ret' :
               mm_ret'[i].metric_name = mm_ret'[j].metric_name => i = j

\* C29: MultiMetricAnomalyDetector creates the detector of a metric on the
\* first value observed for its name, with the shared threshold, window size
\* and min_samples; the metrics are independent: add_metric_value for one
\* name leaves the detector of every other name as it was, and its buffer
\* and verdict are those of a detector given that name's values alone;
\* get_all_anomalies returns at most one anomaly per submitted name, exactly
\* those add_metric_value returns, an empty list when there are none.
C29_MetricsIndependent ==
    /\ []DetectorsAreTheirOwn
    /\ [][AddMetricValueAlone /\ GetAllAnomaliesAlone]_vars

\* get_all_anomalies found an anomaly for one of two metrics, one of them
\* seen for the first time, while both have a detector
C29_Witness ==
    /\ mm_op.op = "get_all_anomalies"
    /\ Len(mm_op.metric_values) = 2
    /\ Len(mm_ret) = 1
    /\ \E n \in MetricNames : Len(mm_submitted[n]) = 1
    /\ DOMAIN mm_detectors = MetricNames

\* get_all_anomalies found no anomaly and returned the empty list
C29_NoneReached ==
    /\ mm_op.op = "get_all_anomalies"
    /\ Len(mm_op.metric_values) = 2
    /\ mm_ret = <<>>

\* add_metric_value returned an anomaly while the other metric has values
C29_AnomalyReached ==
    /\ mm_op.op = "add_metric_value"
    /\ mm_ret # None
    /\ \A n \in MetricNames : mm_submitted[n] # <<>>

(***************************************************************************)
(* Properties of LogEvent                                                  *)
(***************************************************************************)

\* The sample arguments that name a level in some case, and those that are
\* text with something in it
LevelSpellings == {"INFO", "info", "Fatal", "error", "TRACE"}
NonBlank == {"app", "a", " a "}

\* The arguments LogEvent is documented to accept
Acceptable(args) ==
    /\ args.timestamp.kind = "datetime"
    /\ args.level.kind = "str" /\ args.level.s \in LevelSpellings
    /\ args.source.kind = "str" /\ args.source.s \in NonBlank
    /\ args.message.kind = "str" /\ args.message.s \in NonBlank
    /\ args.metadata = NoArg \/ args.metadata.kind \in {"None", "dict"}

\* C31: every successfully constructed LogEvent has a level among DEBUG,
\* INFO, WARNING, ERROR, CRITICAL, TRACE, FATAL in upper case, whatever the
\* case it was given in, a source and a message that are not empty after
\* trimming, and a metadata that is a mapping, never None; the construction
\* fails with ValueError in every other case.
C31_EventsAreValid ==
    new_event.ret # None =>
        IF Acceptable(new_event.args)
        THEN /\ new_event.ret.kind = "LogEvent"
             /\ new_event.ret.level \in
                    {"DEBUG", "INFO", "WARNING", "ERROR", "CRITICAL", "TRACE", "FATAL"}
             /\ new_event.ret.source \in NonBlank
             /\ new_event.ret.message \in NonBlank
             /\ new_event.ret.metadata.kind = "dict"
        ELSE new_event.ret = Raise("ValueError")

\* An event built from a lower-case level and a metadata of None
C31_Witness ==
    /\ new_event.ret # None
    /\ new_event.ret.kind = "LogEvent"
    /\ new_event.args.level = JStr("info")
    /\ new_event.ret.level = "INFO"
    /\ new_event.args.metadata = None
    /\ new_event.ret.metadata = JDict(EmptyMap)

(***************************************************************************)
(* Properties of LogIngestor._ingest_json                                  *)
(***************************************************************************)

\* The numbers of the lines read so far that are of a kind
ReadOf(kind) == {i \in 1..ing_line_num : ing_stream[i] \in kind}

\* The events yielded are those of the event lines read, in input order
YieldedInOrder ==
    /\ {ing_yielded[i].line_num : i \in DOMAIN ing_yielded} = ReadOf(EventLines)
    /\ \A i \in 1..(Len(ing_yielded) - 1) :
          ing_yielded[i].line_num < ing_yielded[i + 1].line_num

\* C30: empty lines are skipped; in lenient mode (skip_invalid=True) every
\* malformed line is dropped without raising and the well-formed lines are
\* yielded in input order; in strict mode the first malformed line raises
\* ValueError.
C30_LinesHandled ==
    /\ ing_skip_invalid => (ing_raised = None /\ YieldedInOrder)
    /\ ~ing_skip_invalid =>
          /\ ing_raised = None => (ReadOf(MalformedLines) = {} /\ YieldedInOrder)
          /\ ing_raised # None =>
                /\ ing_raised = Raise("ValueError")
                /\ ReadOf(MalformedLines) = {ing_line_num}

\* The same for the streams whose malformed lines are not JSON or are
\* objects that LogEvent refuses
LinesHandledWhenCaught ==
    (\A i \in 1..ing_line_num :
        ing_stream[i] \notin {"42", "{\"metadata\": \"x\", \"k\": 1}"})
        => C30_LinesHandled

\* A lenient ingestor dropped a line that is not JSON and yielded the event
\* of the line after it
LenientDropReached ==
    /\ ing_skip_invalid
    /\ ing_line_num = 3
    /\ ing_stream[1] = "{\"invalid\": json}"
    /\ ing_stream[2] = ""
    /\ Len(ing_yielded) = 1

(***************************************************************************)
(* Properties of LogStorage                                                *)
(***************************************************************************)
\* The stored events that satisfy every filter the query was given
SatisfyingSupplied(q) ==
    {r \in events :
        /\ q.start_time # NoArg => q.start_time[1] <= r.timestamp
        /\ q.end_time # NoArg => r.timestamp <= q.end_time[1]
        /\ q.level # NoArg => r.level = q.level[1]
        /\ q.source # NoArg => r.source = q.source[1]}
\* The rows of a result are exactly the rows of the set, each once, by
\* timestamp descending
ExactlyDescending(ret, rows) ==
    /\ {ret[i] : i \in 1..Len(ret)} = rows
    /\ Len(ret) = Cardinality(rows)
    /\ \A i \in 1..(Len(ret) - 1) : ret[i].timestamp >= ret[i + 1].timestamp
NoFilters(q) ==
    q.start_time = NoArg /\ q.end_time = NoArg /\ q.level = NoArg /\ q.source = NoArg

\* C23: query_events without a limit returns exactly the stored events that
\* satisfy every supplied filter, by timestamp descending; with no filters,
\* after N inserts into an empty store, it returns those N events.
C23_QueryReturnsSatisfying ==
    (db_op.op = "query_events" /\ db_query.limit = NoArg) =>
        /\ ExactlyDescending(db_op.ret, SatisfyingSupplied(db_query))
        /\ NoFilters(db_query) => Len(db_op.ret) = Len(event_ids)

\* The same for queries whose level and source, when given, are not ''
QueryReturnsSatisfyingNonEmpty ==
    (/\ db_op.op = "query_events" /\ db_query.limit = NoArg
     /\ db_query.level # Some("") /\ db_query.source # Some("")) =>
        /\ ExactlyDescending(db_op.ret, SatisfyingSupplied(db_query))
        /\ NoFilters(db_query) => Len(db_op.ret) = Len(event_ids)

\* The rows a limited query may return are a prefix of the unlimited result
\* in one of its descending orders
Unlimited ==
    IF db_op.op = "query_events" THEN OrderedDesc(Selected(events, db_query))
    ELSE OrderedByStartDesc(SelectedMetrics(metric_rows, db_query))
QueryWithLimit ==
    db_op.op \in {"query_events", "query_metrics"} /\ db_query.limit # NoArg
FirstRowsOfUnlimited ==
    /\ Len(db_op.ret) <= db_query.limit[1]
    /\ \E s \in Unlimited :
          db_op.ret = SubSeq(s, 1, Min(db_query.limit[1], Len(s)))

\* C39: query_events and query_metrics called with limit = k, for every
\* integer k >= 0, return at most k rows, namely the first k rows of the
\* unlimited result in its descending order.
C39_LimitReturnsFirstRows == QueryWithLimit => FirstRowsOfUnlimited

\* The same for every k >= 1
PositiveLimitReturnsFirstRows ==
    (QueryWithLimit /\ db_query.limit[1] >= 1) => FirstRowsOfUnlimited

\* limit = 0 returns every row the filters keep
ZeroLimitReturnsAll ==
    (QueryWithLimit /\ db_query.limit[1] = 0) => db_op.ret \in Unlimited

\* A limit of 1 cut a result of two rows; a limit of 0 returned two rows
LimitCutReached ==
    /\ QueryWithLimit /\ db_query.limit = Some(1)
    /\ Len(db_op.ret) = 1
    /\ \E s \in Unlimited : Len(s) = 2
ZeroLimitMetricsReached ==
    /\ db_op.op = "query_metrics" /\ db_query.limit = Some(0)
    /\ Len(db_op.ret) = 2
ZeroLimitEventsReached ==
    /\ db_op.op = "query_events" /\ db_query.limit = Some(0)
    /\ Len(db_op.ret) = 2

StoreCalls ==
    {"insert_event", "insert_metric", "query_events", "delete_old_events",
     "delete_old_metrics"}

\* C25: once close() has been called the store stays closed and every later
\* insert, query or delete fails and changes nothing; a store used in a
\* with statement is closed on every path out of the block: completion,
\* exception, early return.
C25_ClosedForGood ==
    /\ [](db_with \in ExitPaths => db_conn = "closed")
    /\ []((db_conn = "closed" /\ db_op.op \in StoreCalls) => db_op.ret = ConnectionClosed)
    /\ [][db_op'.op \in {"close", "__exit__"} => db_conn' = "closed"]_vars
    /\ [][db_conn = "closed" =>
            /\ db_conn' = "closed"
            /\ events' = events /\ metric_rows' = metric_rows
            /\ db_op'.op \in StoreCalls => db_op'.ret = ConnectionClosed]_vars

\* a block that held rows was left by an exception, and the insert that
\* followed failed
C25_Witness ==
    /\ db_with = "exception"
    /\ db_conn = "closed"
    /\ events # {}
    /\ db_op = [op |-> "insert_event", ret |-> ConnectionClosed]

\* A row with a value and no grouped map, or a grouped map and no value
ExactlyOnePopulated(r) == (r.value # None) # (r.grouped_values # None)

\* C24: every row of the metrics table has exactly one of value and grouped
\* map populated, whether written through insert_metric or through
\* PersistentMetricProcessor.
C24_ExactlyOnePopulated ==
    \A r \in metric_rows : ExactlyOnePopulated(r)

\* The same for the rows a PersistentMetricProcessor writes whose metrics
\* all have a positive window: a value for a plain metric, a grouped map for
\* a metric with a group key
PersistedRowsExactlyOne ==
    (\A i \in 1..Len(metrics) : metrics[i].window > 0) =>
        \A r \in metric_rows : \A i \in 1..Len(metrics) :
            r.metric_name = metrics[i].name =>
                IF metrics[i].group_by = "none"
                THEN r.value # None /\ r.grouped_values = None
                ELSE r.value = None /\ r.grouped_values # None

\* C27: delete_old_events(cutoff) removes exactly the events with a timestamp
\* strictly before cutoff, returns the number of rows it removed and leaves
\* the other event rows and the whole metrics table unchanged;
\* delete_old_metrics(cutoff) does the same for the metric rows with
\* window_end strictly before cutoff and leaves the events table unchanged.
C27_DeletesExactlyTheOlder ==
    [][/\ (db_conn = "open" /\ db_op'.op = "delete_old_events") =>
            /\ events' = {r \in events : r.timestamp >= db_op'.before_date}
            /\ db_op'.ret = Cardinality({r \in events : r.timestamp < db_op'.before_date})
            /\ db_op'.ret = Cardinality(events) - Cardinality(events')
            /\ metric_rows' = metric_rows
       /\ (db_conn = "open" /\ db_op'.op = "delete_old_metrics") =>
            /\ metric_rows' = {r \in metric_rows : r.window_end >= db_op'.before_date}
            /\ db_op'.ret = Cardinality({r \in metric_rows : r.window_end < db_op'.before_date})
            /\ db_op'.ret = Cardinality(metric_rows) - Cardinality(metric_rows')
            /\ events' = events]_vars

\* delete_old_events removed a row and kept a row stamped with the cutoff
C27_Witness ==
    /\ db_op.op = "delete_old_events"
    /\ db_op.ret > 0
    /\ \E r \in events : r.timestamp = db_op.before_date
    /\ metric_rows # {}

\* delete_old_metrics removed a row and kept a row that ends at the cutoff
C27_MetricsReached ==
    /\ db_op.op = "delete_old_metrics"
    /\ db_op.ret > 0
    /\ \E r \in metric_rows : r.window_end = db_op.before_date
    /\ events # {}

\* The last step was a bucket query that returned rows
BucketsReturned == db_op.op = "query_metrics_by_time_bucket"

\* The bucket of a stored row under the queried unit
BucketOf(r) == _get_time_bucket_expr(db_query.bucket_size, r.window_start)

\* The stored rows a bucket query counts: those of the queried metric that
\* hold a value and lie inside the queried time range
Counted ==
    {r \in metric_rows :
        /\ r.metric_name = db_query.metric_name
        /\ r.value # None
        /\ db_query.start_time # NoArg => r.window_start >= db_query.start_time[1]
        /\ db_query.end_time # NoArg => r.window_end <= db_query.end_time[1]}

\* C28: query_metrics_by_time_bucket(name, bucket) returns one row per
\* distinct bucket_time of the rows it counts, in ascending bucket_time
\* order, and each row's sample_count is the number of rows of that metric
\* with a non-NULL value, inside the queried time range, whose window_start
\* truncated to the bucket equals that bucket_time.
C28_OneRowPerBucketCounted ==
    BucketsReturned =>
        /\ {row.bucket_time : row \in {db_op.ret[i] : i \in DOMAIN db_op.ret}}
               = {BucketOf(r) : r \in Counted}
        /\ \A i \in 1..(Len(db_op.ret) - 1) :
               db_op.ret[i].bucket_time < db_op.ret[i + 1].bucket_time
        /\ \A i \in DOMAIN db_op.ret :
               db_op.ret[i].sample_count =
                   Cardinality({r \in Counted : BucketOf(r) = db_op.ret[i].bucket_time})

\* A query by minute returned two buckets, one of them counting two rows,
\* while the table also holds a row of the metric without a value
C28_Witness ==
    /\ BucketsReturned
    /\ db_query.bucket_size = "minute"
    /\ Len(db_op.ret) = 2
    /\ \E i \in DOMAIN db_op.ret : db_op.ret[i].sample_count = 2
    /\ \E r \in metric_rows : r.metric_name = db_query.metric_name /\ r.value = None

\* C28 as stated: without a time range, each returned row's sample_count is
\* the number of stored rows of the metric whose window_start truncated to
\* the bucket equals that bucket_time.
C28_SampleCountOfStoredRows ==
    (BucketsReturned /\ db_query.start_time = NoArg /\ db_query.end_time = NoArg) =>
        \A i \in DOMAIN db_op.ret :
            db_op.ret[i].sample_count =
                Cardinality({r \in metric_rows :
                                /\ r.metric_name = db_query.metric_name
                                /\ BucketOf(r) = db_op.ret[i].bucket_time})

\* The rows of the events table have distinct ids
IdsDistinct == \A r1 \in events, r2 \in events : r1.id = r2.id => r1 = r2

\* The last step was the INSERT of a writer, refused on the primary key
Collided ==
    /\ db_op.op = "insert_event"
    /\ "writer" \in DOMAIN db_op
    /\ db_op.refused

\* C26: with two writers whose "read MAX(id)+1" and INSERT statements
\* interleave, an INSERT is refused on the primary key only when another
\* writer's INSERT came between the two statements of this writer; a writer
\* whose two statements run with no INSERT between them (serialized calls)
\* never collides, and the ids in the table stay distinct.
C26_CollisionOnlyWhenOvertaken ==
    /\ IdsDistinct
    /\ Collided => db_op.overtaken
    /\ \A w \in Writers :
          (db_writers[w].pc = "insert" /\ ~db_writers[w].overtaken)
              => ~PrimaryKeyTaken(events, db_writers[w].next_id)

\* Two writers read the same next id and the later INSERT collided
C26_Witness ==
    /\ Collided
    /\ db_op.overtaken
    /\ \E r \in events : r.id = db_op.next_id

StrictlyIncreasing(s) == \A i \in 1..(Len(s) - 1) : s[i] < s[i + 1]

\* C5: over any sequence of inserts and deletes on one store, every id
\* returned by an insert is greater than every id returned before for that
\* table.
C5_IdsStrictlyIncreasing ==
    /\ StrictlyIncreasing(event_ids)
    /\ StrictlyIncreasing(metric_ids)

====
